---- MODULE Spec2Model ----
(***************************************************************************)
(* Logistics-Lattice: the graph store (graph_model.py), the disruption     *)
(* simulator (disruption_simulator.py) and the rerouting agent             *)
(* (rerouting_agent.py) as a state machine.                                *)
(*                                                                         *)
(* The graph database is the record `graph`: nodes are functions from ids  *)
(* to property records (an id is in the DOMAIN exactly when the node       *)
(* exists), CARRYING is a bag of edges (Neo4j allows parallel              *)
(* relationships and transfer_package uses CREATE, not MERGE), and         *)
(* DESTINED_FOR / LOCATED_AT are sets (only ever MERGEd).                  *)
(*                                                                         *)
(* Weights and capacities are floats in the source and integers here.      *)
(* `distance` is sqrt(dlat^2 + dlon^2) in the source and dlat^2 + dlon^2   *)
(* here: the two order trucks the same way.                                *)
(***************************************************************************)
EXTENDS Integers, Sequences, FiniteSets, TLC

\* ------------------------------------------------------------------ bounds
\* Largest package weight and truck capacity the inputs are drawn from.
MaxWeight == 2
MaxCapacity == 2
\* How far available_capacity may leave [0, capacity] before exploration stops.
MaxDrift == 2
\* Parallel CARRYING edges between one truck and one package.
MaxEdges == 2
\* Length of the simulator's events log and of the agent's rerouting history.
MaxEvents == 2
MaxHistory == 1

\* ------------------------------------------------------------- identifiers
TruckIds == {"T1", "T2", "T3"}
PackageIds == {"P1", "P2"}
CustomerIds == {"C1"}
PointIds == {"R1"}
None == "None"

Weights == 1..MaxWeight
Capacities == 1..MaxCapacity

VARIABLES
    graph,              \* LogisticsGraph: the Neo4j database behind self.driver
    events,             \* the DisruptionEvent objects created so far, by identity
    events_log,         \* DisruptionSimulator.events_log (event identities)
    active_events,      \* DisruptionSimulator.active_events (event identities)
    rerouting_history,  \* AutonomousReroutingAgent.rerouting_history
    calls,              \* transfer_package calls in flight, one per concurrent caller
    ret                 \* the last call: its name, arguments, return value and,
                        \* where `pre` is kept, the graph it was made on

vars == <<graph, events, events_log, active_events, rerouting_history, calls, ret>>
simVars == <<events, events_log, active_events>>

\* ------------------------------------------------------------------ helpers
RECURSIVE SumOver(_, _)
SumOver(f, S) ==
    IF S = {} THEN 0
    ELSE LET x == CHOOSE y \in S : TRUE IN f[x] + SumOver(f, S \ {x})

RECURSIVE Replicate(_, _)
Replicate(x, n) == IF n <= 0 THEN <<>> ELSE <<x>> \o Replicate(x, n - 1)

RECURSIVE Flatten(_)
Flatten(ss) == IF ss = <<>> THEN <<>> ELSE Head(ss) \o Flatten(Tail(ss))

Range(s) == {s[i] : i \in DOMAIN s}

Orders(S) == {s \in [1..Cardinality(S) -> S] : Range(s) = S}

Put(f, k, v) == [x \in DOMAIN f \cup {k} |-> IF x = k THEN v ELSE f[x]]

\* ---------------------------------------------------------------- the graph
EmptyGraph ==
    [trucks |-> <<>>, packages |-> <<>>, customers |-> {}, points |-> {},
     carrying |-> [e \in TruckIds \X PackageIds |-> 0],
     destined |-> {}, located |-> {}]

HasTruck(g, t) == t \in DOMAIN g.trucks
HasPackage(g, p) == p \in DOMAIN g.packages

\* The packages a truck is linked to by at least one CARRYING edge.
Carried(g, t) == {p \in PackageIds : g.carrying[<<t, p>>] > 0}
\* The trucks a package is the CARRYING target of.
Carriers(g, p) == {t \in TruckIds : g.carrying[<<t, p>>] > 0}
\* The number of CARRYING edges that end at a package.
InEdges(g, p) == SumOver([t \in TruckIds |-> g.carrying[<<t, p>>]], TruckIds)
\* The summed weight of the packages a truck carries.
CarriedWeight(g, t) ==
    SumOver([p \in PackageIds |-> IF p \in Carried(g, t) THEN g.packages[p].weight ELSE 0],
            PackageIds)

\* create_truck: MERGE the node, SET every property; available_capacity is
\* reset to capacity and the node's edges are left as they are.
create_truck(g, truck_id, capacity, current_lat, current_lon, status, direction) ==
    [g EXCEPT !.trucks = Put(g.trucks, truck_id,
        [capacity |-> capacity, available_capacity |-> capacity,
         current_lat |-> current_lat, current_lon |-> current_lon,
         status |-> status, direction |-> direction])]

\* create_package: MERGE the node, SET every property.
create_package(g, package_id, weight, status, priority) ==
    [g EXCEPT !.packages = Put(g.packages, package_id,
        [weight |-> weight, status |-> status, priority |-> priority])]

create_customer(g, customer_id) == [g EXCEPT !.customers = @ \cup {customer_id}]

create_route_point(g, point_id) == [g EXCEPT !.points = @ \cup {point_id}]

\* assign_package_to_truck: MATCH both nodes, MERGE the edge, then SET once per
\* row MERGE yields (one row per matching edge, one row when it creates the
\* edge): the capacity is debited without any check.
assign_package_to_truck(g, truck_id, package_id) ==
    IF ~(HasTruck(g, truck_id) /\ HasPackage(g, package_id))
    THEN [graph |-> g, ok |-> FALSE]
    ELSE LET n == g.carrying[<<truck_id, package_id>>]
             rows == IF n = 0 THEN 1 ELSE n
             w == g.packages[package_id].weight
         IN [graph |->
                [g EXCEPT !.carrying[<<truck_id, package_id>>] = IF n = 0 THEN 1 ELSE n,
                          !.trucks[truck_id].available_capacity = @ - rows * w,
                          !.packages[package_id].status = "in_transit"],
             ok |-> TRUE]

locate_truck_at_point(g, truck_id, point_id) ==
    IF HasTruck(g, truck_id) /\ point_id \in g.points
    THEN [graph |-> [g EXCEPT !.located = @ \cup {<<truck_id, point_id>>}], ok |-> TRUE]
    ELSE [graph |-> g, ok |-> FALSE]

assign_package_destination(g, package_id, customer_id) ==
    IF HasPackage(g, package_id) /\ customer_id \in g.customers
    THEN [graph |-> [g EXCEPT !.destined = @ \cup {<<package_id, customer_id>>}], ok |-> TRUE]
    ELSE [graph |-> g, ok |-> FALSE]

\* A get_all_trucks that ignores the status it is asked for.
get_all_trucks_any(g, status) == DOMAIN g.trucks

get_all_trucks(g, status) ==
    {t \in DOMAIN g.trucks : status = None \/ g.trucks[t].status = status}

\* transfer_package: the rows are the CARRYING edges from -> package, kept when
\* the destination exists and has the capacity; every row deletes its edge,
\* creates one to the destination, and credits and debits the two trucks (the
\* SET items run left to right, so from = to comes out unchanged).
TransferRows(g, package_id, from_truck_id, to_truck_id) ==
    IF HasTruck(g, from_truck_id) /\ HasPackage(g, package_id) /\ HasTruck(g, to_truck_id)
       /\ g.trucks[to_truck_id].available_capacity >= g.packages[package_id].weight
    THEN g.carrying[<<from_truck_id, package_id>>]
    ELSE 0

\* The write clauses of transfer_package for n rows: DELETE r, CREATE the new
\* edge, SET the two capacities from their current values.
TransferWrites(g, package_id, from_truck_id, to_truck_id, n) ==
    LET w == g.packages[package_id].weight
        g1 == [g EXCEPT !.carrying[<<from_truck_id, package_id>>] = @ - n]
        g2 == [g1 EXCEPT !.carrying[<<to_truck_id, package_id>>] = @ + n]
        g3 == [g2 EXCEPT !.trucks[from_truck_id].available_capacity = @ + n * w]
    IN [g3 EXCEPT !.trucks[to_truck_id].available_capacity = @ - n * w]

\* A transfer_package that is not all-or-nothing: when only the capacity test
\* fails it still credits the source truck.
transfer_package_partial(g, package_id, from_truck_id, to_truck_id) ==
    LET n == TransferRows(g, package_id, from_truck_id, to_truck_id) IN
    IF n = 0
    THEN [graph |-> IF HasTruck(g, from_truck_id) /\ HasPackage(g, package_id)
                       /\ g.carrying[<<from_truck_id, package_id>>] > 0
                    THEN [g EXCEPT !.trucks[from_truck_id].available_capacity =
                                       @ + g.packages[package_id].weight]
                    ELSE g,
          ok |-> FALSE]
    ELSE [graph |-> TransferWrites(g, package_id, from_truck_id, to_truck_id, n),
          ok |-> TRUE]

\* A transfer_package that sets the package's status again on every transfer.
transfer_package_restatus(g, package_id, from_truck_id, to_truck_id) ==
    LET n == TransferRows(g, package_id, from_truck_id, to_truck_id) IN
    IF n = 0 THEN [graph |-> g, ok |-> FALSE]
    ELSE [graph |-> [TransferWrites(g, package_id, from_truck_id, to_truck_id, n) EXCEPT
                        !.packages[package_id].status = "rerouted"],
          ok |-> TRUE]

transfer_package(g, package_id, from_truck_id, to_truck_id) ==
    LET n == TransferRows(g, package_id, from_truck_id, to_truck_id) IN
    IF n = 0 THEN [graph |-> g, ok |-> FALSE]
    ELSE [graph |-> TransferWrites(g, package_id, from_truck_id, to_truck_id, n),
          ok |-> TRUE]

\* An update_truck_status whose MATCH is not narrowed to the truck id.
update_truck_status_all(g, truck_id, status) ==
    IF HasTruck(g, truck_id)
    THEN [graph |-> [g EXCEPT !.trucks = [t \in DOMAIN g.trucks |->
                                            [g.trucks[t] EXCEPT !.status = status]]],
          ok |-> TRUE]
    ELSE [graph |-> g, ok |-> FALSE]

update_truck_status(g, truck_id, status) ==
    IF HasTruck(g, truck_id)
    THEN [graph |-> [g EXCEPT !.trucks[truck_id].status = status], ok |-> TRUE]
    ELSE [graph |-> g, ok |-> FALSE]

update_truck_location(g, truck_id, lat, lon) ==
    IF HasTruck(g, truck_id)
    THEN [graph |-> [g EXCEPT !.trucks[truck_id].current_lat = lat,
                              !.trucks[truck_id].current_lon = lon], ok |-> TRUE]
    ELSE [graph |-> g, ok |-> FALSE]

\* ------------------------------------------------------------------ queries
\* get_truck_packages: one row per CARRYING edge, in the order the database
\* yields them (`order`: the package scan order, which Cypher leaves open).
get_truck_packages(g, truck_id, order) ==
    IF ~HasTruck(g, truck_id) THEN <<>>
    ELSE Flatten([i \in DOMAIN order |->
            IF HasPackage(g, order[i])
            THEN Replicate(order[i], g.carrying[<<truck_id, order[i]>>])
            ELSE <<>>])

\* The customers a package is DESTINED_FOR.
Destinations(g, p) == {c \in g.customers : <<p, c>> \in g.destined}

\* get_impact_analysis: one row per path truck -CARRYING-> p -DESTINED_FOR-> c;
\* count(p), collect(p.package_id) and sum(p.weight) run over the rows, the
\* customers are DISTINCT. A package with no destination yields no row, and an
\* aggregation over no rows is the all-zero record.
ImpactRows(g, truck_id, order) ==
    IF ~HasTruck(g, truck_id) THEN <<>>
    ELSE Flatten([i \in DOMAIN order |->
            IF HasPackage(g, order[i])
            THEN Replicate(order[i],
                    g.carrying[<<truck_id, order[i]>>] * Cardinality(Destinations(g, order[i])))
            ELSE <<>>])

RECURSIVE SeqSum(_)
SeqSum(s) == IF s = <<>> THEN 0 ELSE Head(s) + SeqSum(Tail(s))

get_impact_analysis(g, truck_id, order) ==
    LET rows == ImpactRows(g, truck_id, order)
        custs == UNION {Destinations(g, p) : p \in Range(rows)}
    IN [affected_packages |-> Len(rows),
        affected_customers |-> Cardinality(custs),
        customer_ids |-> custs,
        package_ids |-> rows,
        total_weight |-> SeqSum([i \in DOMAIN rows |-> g.packages[rows[i]].weight])]

\* The square of the distance the query computes.
Distance(g, t, lat, lon) ==
    (g.trucks[t].current_lat - lat) * (g.trucks[t].current_lat - lat)
    + (g.trucks[t].current_lon - lon) * (g.trucks[t].current_lon - lon)

\* A WHERE clause without the status test.
Qualifies_any_status(g, t, min_capacity, direction) ==
    /\ g.trucks[t].available_capacity >= min_capacity
    /\ (direction # None => g.trucks[t].direction = direction)

\* The WHERE clause of find_nearest_available_trucks; `if direction:` drops the
\* direction test for None.
Qualifies(g, t, min_capacity, direction) ==
    /\ g.trucks[t].status = "active"
    /\ g.trucks[t].available_capacity >= min_capacity
    /\ (direction # None => g.trucks[t].direction = direction)

IndexOf(s, x) == CHOOSE i \in DOMAIN s : s[i] = x

\* ORDER BY distance: rows of equal distance stay in the order the scan
\* produced them (`scan`, which Cypher leaves open).
RECURSIVE OrderByDistance(_, _, _, _, _)
OrderByDistance(g, S, lat, lon, scan) ==
    IF S = {} THEN <<>>
    ELSE LET first == CHOOSE a \in S : \A b \in S \ {a} :
                        \/ Distance(g, a, lat, lon) < Distance(g, b, lat, lon)
                        \/ /\ Distance(g, a, lat, lon) = Distance(g, b, lat, lon)
                           /\ IndexOf(scan, a) < IndexOf(scan, b)
         IN <<first>> \o OrderByDistance(g, S \ {first}, lat, lon, scan)

find_nearest_available_trucks(g, lat, lon, min_capacity, direction, limit, scan) ==
    LET S == {t \in DOMAIN g.trucks : Qualifies(g, t, min_capacity, direction)}
        sorted == OrderByDistance(g, S, lat, lon, scan)
        cut == SubSeq(sorted, 1, IF Len(sorted) < limit THEN Len(sorted) ELSE limit)
    IN [i \in DOMAIN cut |->
            [truck |-> [truck_id |-> cut[i]] @@ g.trucks[cut[i]],
             distance |-> Distance(g, cut[i], lat, lon)]]

\* -------------------------------------------------------- the rerouting agent
TRUCK_SPEED_KMH == 60
SLA_PENALTY_PER_HOUR == 10
avg_delay_hours == 3

\* A calculate_blast_radius that charges the penalty per customer.
calculate_blast_radius_per_customer(g, truck_id, order) ==
    LET impact == get_impact_analysis(g, truck_id, order)
        penalty_per_package == avg_delay_hours * SLA_PENALTY_PER_HOUR
    IN [affected_deliveries |-> impact.affected_packages,
        affected_customers |-> impact.affected_customers,
        estimated_delay_hours |-> avg_delay_hours,
        sla_penalty_per_package |-> penalty_per_package,
        total_sla_penalty |-> impact.affected_customers * penalty_per_package]

\* calculate_blast_radius: one get_impact_analysis query, then arithmetic.
calculate_blast_radius(g, truck_id, order) ==
    LET impact == get_impact_analysis(g, truck_id, order)
        penalty_per_package == avg_delay_hours * SLA_PENALTY_PER_HOUR
    IN [affected_deliveries |-> impact.affected_packages,
        affected_customers |-> impact.affected_customers,
        estimated_delay_hours |-> avg_delay_hours,
        sla_penalty_per_package |-> penalty_per_package,
        total_sla_penalty |-> impact.affected_packages * penalty_per_package]
KmPerDegree == 111
CandidateLimit == 5

\* ReroutingState as handle_truck_failure builds it; `stages` lists the
\* workflow nodes that have run on it, in order.
InitialState(truck_id) ==
    [failed_truck_id |-> truck_id, affected_packages |-> <<>>,
     available_trucks |-> <<>>, rerouting_plan |-> <<>>,
     status |-> "initialized", message |-> "", stages |-> <<>>]

Ran(st, stage) == [st EXCEPT !.stages = Append(@, stage)]

_detect_failure(g, st) ==
    IF ~HasTruck(g, st.failed_truck_id) \/ g.trucks[st.failed_truck_id].status # "failed"
    THEN [Ran(st, "detect_failure") EXCEPT !.status = "error",
                                           !.message = "not found or not in failed state"]
    ELSE [Ran(st, "detect_failure") EXCEPT !.status = "failure_detected",
                                           !.message = "failure confirmed"]

_assess_impact(g, st, order) ==
    [Ran(st, "assess_impact") EXCEPT
        !.affected_packages = get_impact_analysis(g, st.failed_truck_id, order).package_ids,
        !.status = "impact_assessed",
        !.message = "found affected packages"]

\* The packages of get_truck_packages that are in the affected list, each with
\* its candidates; a package with no candidate is left out.
RECURSIVE Alternatives(_, _, _, _)
Alternatives(g, truck_id, details, scan) ==
    IF details = <<>> THEN <<>>
    ELSE LET failed_truck == g.trucks[truck_id]
             candidates == find_nearest_available_trucks(g,
                              failed_truck.current_lat, failed_truck.current_lon,
                              g.packages[Head(details)].weight,
                              failed_truck.direction, CandidateLimit, scan)
             rest == Alternatives(g, truck_id, Tail(details), scan)
         IN IF candidates # <<>>
            THEN <<[package_id |-> Head(details), candidates |-> candidates]>> \o rest
            ELSE rest

_find_alternatives(g, st, order, scan) ==
    IF st.affected_packages = <<>>
    THEN [Ran(st, "find_alternatives") EXCEPT !.status = "no_packages",
                                              !.message = "no packages to reroute",
                                              !.available_trucks = <<>>]
    ELSE LET packages_data == get_truck_packages(g, st.failed_truck_id, order)
             package_details == SelectSeq(packages_data,
                                    LAMBDA p : p \in Range(st.affected_packages))
         IN [Ran(st, "find_alternatives") EXCEPT
                !.available_trucks = Alternatives(g, st.failed_truck_id, package_details, scan),
                !.status = "alternatives_found",
                !.message = "found alternative trucks"]

\* A rerouting loop that falls back to the second candidate when the transfer
\* to the first one fails.
RECURSIVE Reroute_fallback(_, _, _, _)
Reroute_fallback(g, failed_truck_id, todo, plan) ==
    IF todo = <<>> THEN [graph |-> g, plan |-> plan]
    ELSE LET pkg_info == Head(todo)
             r1 == transfer_package(g, pkg_info.package_id, failed_truck_id,
                                    pkg_info.candidates[1].truck.truck_id)
             k == IF ~r1.ok /\ Len(pkg_info.candidates) > 1 THEN 2 ELSE 1
             r == IF k = 1 THEN r1
                  ELSE transfer_package(g, pkg_info.package_id, failed_truck_id,
                                        pkg_info.candidates[2].truck.truck_id)
         IN Reroute_fallback(r.graph, failed_truck_id, Tail(todo),
                IF r.ok
                THEN Append(plan, [package_id |-> pkg_info.package_id,
                                   new_truck_id |-> pkg_info.candidates[k].truck.truck_id,
                                   distance |-> pkg_info.candidates[k].distance])
                ELSE plan)

\* The loop of _execute_rerouting: one transfer_package per entry, to
\* candidates[0] only; a plan entry is appended when the transfer succeeds.
RECURSIVE Reroute(_, _, _, _)
Reroute(g, failed_truck_id, todo, plan) ==
    IF todo = <<>> THEN [graph |-> g, plan |-> plan]
    ELSE LET pkg_info == Head(todo)
             best_truck == pkg_info.candidates[1].truck
             r == transfer_package(g, pkg_info.package_id, failed_truck_id, best_truck.truck_id)
         IN Reroute(r.graph, failed_truck_id, Tail(todo),
                IF r.ok
                THEN Append(plan, [package_id |-> pkg_info.package_id,
                                   new_truck_id |-> best_truck.truck_id,
                                   distance |-> pkg_info.candidates[1].distance])
                ELSE plan)

\* An _execute_rerouting that transfers but records a plan entry for the
\* transfers that fail instead of those that succeed.
_execute_rerouting_inverted(g, st) ==
    LET r == Reroute(g, st.failed_truck_id, st.available_trucks, <<>>)
        failed == SelectSeq(st.available_trucks,
                     LAMBDA a : \A i \in DOMAIN r.plan : r.plan[i].package_id # a.package_id)
    IN [graph |-> r.graph,
        state |-> [Ran(st, "execute_rerouting") EXCEPT
                      !.rerouting_plan = [i \in DOMAIN failed |->
                          [package_id |-> failed[i].package_id,
                           new_truck_id |-> failed[i].candidates[1].truck.truck_id,
                           distance |-> failed[i].candidates[1].distance]],
                      !.status = "rerouting_executed",
                      !.message = "rerouted packages"]]

_execute_rerouting(g, st) ==
    LET r == Reroute(g, st.failed_truck_id, st.available_trucks, <<>>)
    IN [graph |-> r.graph,
        state |-> [Ran(st, "execute_rerouting") EXCEPT
                      !.rerouting_plan = r.plan,
                      !.status = "rerouting_executed",
                      !.message = "rerouted packages"]]

\* delay_hours = distance * 111 / TRUCK_SPEED_KMH; with the squared distance
\* the model keeps its square, as a fraction.
_calculate_eta(st) ==
    [Ran(st, "calculate_eta") EXCEPT
        !.rerouting_plan = [i \in DOMAIN @ |->
            @[i] @@ [delay_hours_squared |->
                        <<@[i].distance * KmPerDegree * KmPerDegree,
                          TRUCK_SPEED_KMH * TRUCK_SPEED_KMH>>]],
        !.status = "eta_calculated",
        !.message = "ETAs recalculated"]

_complete(st) == [Ran(st, "complete") EXCEPT !.status = "completed"]

\* A history record that counts the affected packages instead of the plan.
HistoryRecord_affected(st) ==
    [failed_truck_id |-> st.failed_truck_id,
     packages_rerouted |-> Len(st.affected_packages),
     plan |-> st.rerouting_plan]

HistoryRecord(st) ==
    [failed_truck_id |-> st.failed_truck_id,
     packages_rerouted |-> Len(st.rerouting_plan),
     plan |-> st.rerouting_plan]

\* A handle_truck_failure that sends the truck to maintenance once its
\* packages are rerouted.
handle_truck_failure_repairing(g, history, truck_id, order, scan) ==
    LET s1 == _detect_failure(g, InitialState(truck_id))
        s2 == _assess_impact(g, s1, order)
        s3 == _find_alternatives(g, s2, order, scan)
        r4 == _execute_rerouting(g, s3)
        s5 == _calculate_eta(r4.state)
        s6 == _complete(s5)
    IN [graph |-> update_truck_status(r4.graph, truck_id, "maintenance").graph,
        history |-> Append(history, HistoryRecord(s6)),
        state |-> s6]

\* _build_workflow: the six nodes joined by unconditional edges
\* detect_failure -> assess_impact -> find_alternatives -> execute_rerouting
\* -> calculate_eta -> complete -> END. handle_truck_failure invokes it on the
\* initial state and returns the final state.
handle_truck_failure(g, history, truck_id, order, scan) ==
    LET s1 == _detect_failure(g, InitialState(truck_id))
        s2 == _assess_impact(g, s1, order)
        s3 == _find_alternatives(g, s2, order, scan)
        r4 == _execute_rerouting(g, s3)
        s5 == _calculate_eta(r4.state)
        s6 == _complete(s5)
    IN [graph |-> r4.graph,
        history |-> Append(history, HistoryRecord(s6)),
        state |-> s6]

\* handle_truck_failure when a store call raises: `fault` names the stage and,
\* for execute_rerouting, which transfer_package call raises (where it opens
\* its session, before its own try). The exception leaves workflow.invoke and
\* the except branch returns a dict of status and message; the transfers made
\* before it stay, _complete does not run. A fault on a call the run does not
\* make does not happen (raised is FALSE).
Faults ==
    {[stage |-> "detect_failure", call |-> 1], [stage |-> "assess_impact", call |-> 1],
     [stage |-> "find_alternatives", call |-> 1],
     [stage |-> "execute_rerouting", call |-> 1],
     [stage |-> "execute_rerouting", call |-> 2]}

ErrorResult == [status |-> "error", message |-> "exception text"]

FaultHappens(g, truck_id, order, scan, fault) ==
    LET s1 == _detect_failure(g, InitialState(truck_id))
        s2 == _assess_impact(g, s1, order)
        s3 == _find_alternatives(g, s2, order, scan)
    IN CASE fault.stage = "find_alternatives" -> s2.affected_packages # <<>>
         [] fault.stage = "execute_rerouting" -> Len(s3.available_trucks) >= fault.call
         [] OTHER -> TRUE

\* A raising transfer that has already created the new edge when it raises.
handle_truck_failure_torn(g, history, truck_id, order, scan, fault) ==
    LET s1 == _detect_failure(g, InitialState(truck_id))
        s2 == _assess_impact(g, s1, order)
        s3 == _find_alternatives(g, s2, order, scan)
    IN IF fault.stage = "execute_rerouting"
       THEN LET done == Reroute(g, truck_id,
                                SubSeq(s3.available_trucks, 1, fault.call - 1), <<>>).graph
                e == s3.available_trucks[fault.call]
            IN [graph |-> [done EXCEPT
                              !.carrying[<<e.candidates[1].truck.truck_id, e.package_id>>] = @ + 1],
                history |-> history, state |-> ErrorResult]
       ELSE [graph |-> g, history |-> history, state |-> ErrorResult]

handle_truck_failure_raising(g, history, truck_id, order, scan, fault) ==
    LET s1 == _detect_failure(g, InitialState(truck_id))
        s2 == _assess_impact(g, s1, order)
        s3 == _find_alternatives(g, s2, order, scan)
    IN IF fault.stage = "execute_rerouting"
       THEN [graph |-> Reroute(g, truck_id,
                               SubSeq(s3.available_trucks, 1, fault.call - 1), <<>>).graph,
             history |-> history, state |-> ErrorResult]
       ELSE [graph |-> g, history |-> history, state |-> ErrorResult]

get_rerouting_statistics(history) ==
    LET total_operations == Len(history)
        total_packages == SeqSum([i \in DOMAIN history |-> history[i].packages_rerouted])
    IN [total_rerouting_operations |-> total_operations,
        total_packages_rerouted |-> total_packages,
        \* the average as the fraction <<numerator, denominator>>; 0 is <<0, 1>>
        average_packages_per_operation |->
            IF total_operations > 0 THEN <<total_packages, total_operations>> ELSE <<0, 1>>]

\* ---------------------------------------------------- the disruption simulator
\* A DisruptionEvent is an object: `events` maps its identity (the order of
\* construction) to its fields, the two lists hold identities.
NewEvent(event_type, entity_id, severity, description) ==
    [event_type |-> event_type, entity_id |-> entity_id, severity |-> severity,
     description |-> description, resolved |-> FALSE]

\* An inject_truck_failure that keeps the log to a window: once the log holds
\* an entry, the oldest one is dropped to make room for the new one.
inject_truck_failure_windowed(g, evs, log, active, truck_id, pick, failure_type, severity) ==
    IF truck_id = None /\ get_all_trucks(g, "active") = {}
    THEN [graph |-> g, events |-> evs, events_log |-> log, active_events |-> active,
          event |-> 0]
    ELSE LET id == IF truck_id = None THEN pick ELSE truck_id
             e == Len(evs) + 1
         IN [graph |-> update_truck_status(g, id, "failed").graph,
             events |-> Append(evs, NewEvent("truck_failure", id, severity,
                                             <<id, failure_type>>)),
             events_log |-> Append(IF log = <<>> THEN log ELSE Tail(log), e),
             active_events |-> Append(active, e),
             event |-> e]

\* inject_truck_failure: `pick` is random.choice among the active trucks when
\* no id is given; the result is the new event's identity, or None.
inject_truck_failure(g, evs, log, active, truck_id, pick, failure_type, severity) ==
    IF truck_id = None /\ get_all_trucks(g, "active") = {}
    THEN [graph |-> g, events |-> evs, events_log |-> log, active_events |-> active,
          event |-> 0]
    ELSE LET id == IF truck_id = None THEN pick ELSE truck_id
             e == Len(evs) + 1
         IN [graph |-> update_truck_status(g, id, "failed").graph,
             events |-> Append(evs, NewEvent("truck_failure", id, severity,
                                             <<id, failure_type>>)),
             events_log |-> Append(log, e),
             active_events |-> Append(active, e),
             event |-> e]

\* An inject_route_blockage that checks the id it is given against the route
\* points and creates no event for one it does not know.
inject_route_blockage_validated(evs, log, active, point_id, pick, issue_type, severity) ==
    LET id == IF point_id = None THEN pick ELSE point_id
        e == Len(evs) + 1
    IN IF point_id \notin PointIds \cup {None}
       THEN [events |-> evs, events_log |-> log, active_events |-> active, event |-> 0]
       ELSE [events |-> Append(evs, NewEvent("route_blocked", id, severity, <<id, issue_type>>)),
             events_log |-> Append(log, e),
             active_events |-> Append(active, e),
             event |-> e]

\* An inject_route_blockage that logs the event without making it active.
inject_route_blockage_unlisted(evs, log, active, point_id, pick, issue_type, severity) ==
    LET id == IF point_id = None THEN pick ELSE point_id
        e == Len(evs) + 1
    IN [events |-> Append(evs, NewEvent("route_blocked", id, severity, <<id, issue_type>>)),
        events_log |-> Append(log, e),
        active_events |-> active,
        event |-> e]

\* inject_route_blockage: `pick` is the ROUTE-n id drawn when no id is given;
\* the graph is not touched.
inject_route_blockage(evs, log, active, point_id, pick, issue_type, severity) ==
    LET id == IF point_id = None THEN pick ELSE point_id
        e == Len(evs) + 1
    IN [events |-> Append(evs, NewEvent("route_blocked", id, severity, <<id, issue_type>>)),
        events_log |-> Append(log, e),
        active_events |-> Append(active, e),
        event |-> e]

\* inject_random_chaos: `roll` is random.random() < probability, `event_type`
\* the kind drawn; either injector is called without an id.
inject_random_chaos(g, evs, log, active, roll, event_type, pick_truck, pick_point, kind, severity) ==
    IF ~roll
    THEN [graph |-> g, events |-> evs, events_log |-> log, active_events |-> active,
          event |-> 0]
    ELSE IF event_type = "truck_failure"
    THEN inject_truck_failure(g, evs, log, active, None, pick_truck, kind, severity)
    ELSE [graph |-> g] @@ inject_route_blockage(evs, log, active, None, pick_point,
                                                 kind, severity)

\* list.remove: the first occurrence goes.
RemoveFirst(s, x) ==
    LET i == CHOOSE j \in DOMAIN s : s[j] = x /\ \A k \in 1..(j - 1) : s[k] # x
    IN SubSeq(s, 1, i - 1) \o SubSeq(s, i + 1, Len(s))

\* A resolve_event that drops the oldest active event when the resolved one is
\* not active any more.
resolve_event_pop(evs, active, e) ==
    [events |-> [evs EXCEPT ![e].resolved = TRUE],
     active_events |-> IF e \in Range(active) THEN RemoveFirst(active, e)
                       ELSE IF active # <<>> THEN Tail(active) ELSE active]

\* resolve_event: set the flag, remove the event from active_events if it is
\* there.
resolve_event(evs, active, e) ==
    [events |-> [evs EXCEPT ![e].resolved = TRUE],
     active_events |-> IF e \in Range(active) THEN RemoveFirst(active, e) ELSE active]

\* get_event_statistics: by_type and by_severity count the events of the log
\* per value that occurs in it.
CountBy(evs, log, field) ==
    LET values == {evs[log[i]][field] : i \in DOMAIN log}
    IN [v \in values |-> Cardinality({i \in DOMAIN log : evs[log[i]][field] = v})]

\* A get_event_statistics that counts by type and by severity over the active
\* events only.
get_event_statistics_active(evs, log, active) ==
    [total_events |-> Len(log),
     active_events |-> Len(active),
     resolved_events |-> Len(log) - Len(active),
     by_type |-> CountBy(evs, active, "event_type"),
     by_severity |-> CountBy(evs, active, "severity")]

get_event_statistics(evs, log, active) ==
    [total_events |-> Len(log),
     active_events |-> Len(active),
     resolved_events |-> Len(log) - Len(active),
     by_type |-> CountBy(evs, log, "event_type"),
     by_severity |-> CountBy(evs, log, "severity")]

\* ------------------------------------------------------------------ actions
\* Exploration stops where a capacity has drifted MaxDrift out of range or a
\* truck holds more than MaxEdges parallel edges to one package.
Bounded(g) ==
    /\ \A t \in DOMAIN g.trucks :
          /\ g.trucks[t].available_capacity >= 0 - MaxDrift
          /\ g.trucks[t].available_capacity <= g.trucks[t].capacity + MaxDrift
    /\ \A e \in DOMAIN g.carrying : g.carrying[e] <= MaxEdges

CreateTruck(t, capacity, lat, lon, direction) ==
    /\ graph' = create_truck(graph, t, capacity, lat, lon, "active", direction)
    /\ ret' = [op |-> "create_truck", truck_id |-> t]
    /\ UNCHANGED <<simVars, rerouting_history, calls>>

CreatePackage(p, weight) ==
    /\ graph' = create_package(graph, p, weight, "pending", "normal")
    /\ ret' = [op |-> "create_package", package_id |-> p]
    /\ UNCHANGED <<simVars, rerouting_history, calls>>

AssignPackageToTruck(t, p) ==
    LET r == assign_package_to_truck(graph, t, p) IN
    /\ Bounded(r.graph)
    /\ graph' = r.graph
    /\ ret' = [op |-> "assign_package_to_truck", truck_id |-> t, package_id |-> p,
               ok |-> r.ok]
    /\ UNCHANGED <<simVars, rerouting_history, calls>>

TransferPackage(p, from, to) ==
    LET r == transfer_package(graph, p, from, to) IN
    /\ Bounded(r.graph)
    /\ graph' = r.graph
    /\ ret' = [op |-> "transfer_package", package_id |-> p, from_truck_id |-> from,
               to_truck_id |-> to, ok |-> r.ok, pre |-> graph]
    /\ UNCHANGED <<simVars, rerouting_history, calls>>

UpdateTruckStatus(t, status) ==
    LET r == update_truck_status(graph, t, status) IN
    /\ graph' = r.graph
    /\ ret' = [op |-> "update_truck_status", truck_id |-> t, ok |-> r.ok]
    /\ UNCHANGED <<simVars, rerouting_history, calls>>

InjectTruckFailure(truck_id, pick, failure_type, severity) ==
    LET r == inject_truck_failure(graph, events, events_log, active_events,
                                  truck_id, pick, failure_type, severity) IN
    /\ Len(events_log) < MaxEvents
    /\ truck_id = None => (pick \in get_all_trucks(graph, "active")
                           \/ get_all_trucks(graph, "active") = {})
    /\ graph' = r.graph
    /\ events' = r.events
    /\ events_log' = r.events_log
    /\ active_events' = r.active_events
    /\ ret' = [op |-> "inject_truck_failure", truck_id |-> truck_id, event |-> r.event,
               pre |-> graph, pre_events |-> events, pre_log |-> events_log,
               pre_active |-> active_events]
    /\ UNCHANGED <<rerouting_history, calls>>

InjectRouteBlockage(point_id, pick, issue_type, severity) ==
    LET r == inject_route_blockage(events, events_log, active_events,
                                   point_id, pick, issue_type, severity) IN
    /\ Len(events_log) < MaxEvents
    /\ events' = r.events
    /\ events_log' = r.events_log
    /\ active_events' = r.active_events
    /\ ret' = [op |-> "inject_route_blockage", point_id |-> point_id, event |-> r.event,
               pre |-> graph, pre_events |-> events, pre_log |-> events_log,
               pre_active |-> active_events]
    /\ UNCHANGED <<graph, rerouting_history, calls>>

InjectRandomChaos(roll, event_type, pick_truck, pick_point, kind, severity) ==
    LET r == inject_random_chaos(graph, events, events_log, active_events, roll,
                                 event_type, pick_truck, pick_point, kind, severity) IN
    /\ Len(events_log) < MaxEvents
    /\ pick_truck \in get_all_trucks(graph, "active") \/ get_all_trucks(graph, "active") = {}
    /\ graph' = r.graph
    /\ events' = r.events
    /\ events_log' = r.events_log
    /\ active_events' = r.active_events
    /\ ret' = [op |-> "inject_random_chaos", roll |-> roll, event_type |-> event_type,
               event |-> r.event, pre |-> graph, pre_events |-> events,
               pre_log |-> events_log, pre_active |-> active_events]
    /\ UNCHANGED <<rerouting_history, calls>>

ResolveEvent(e) ==
    LET r == resolve_event(events, active_events, e) IN
    /\ e \in DOMAIN events
    /\ events' = r.events
    /\ active_events' = r.active_events
    /\ ret' = [op |-> "resolve_event", event |-> e, pre_events |-> events,
               pre_log |-> events_log, pre_active |-> active_events]
    /\ UNCHANGED <<graph, events_log, rerouting_history, calls>>

HandleTruckFailure(t, order, scan) ==
    LET r == handle_truck_failure(graph, rerouting_history, t, order, scan) IN
    /\ Len(rerouting_history) < MaxHistory
    /\ Bounded(r.graph)
    /\ graph' = r.graph
    /\ rerouting_history' = r.history
    /\ ret' = [op |-> "handle_truck_failure", truck_id |-> t, state |-> r.state,
               pre |-> graph, pre_history |-> rerouting_history]
    /\ UNCHANGED <<simVars, calls>>

HandleTruckFailureRaising(t, order, scan, fault) ==
    LET r == handle_truck_failure_raising(graph, rerouting_history, t, order, scan, fault) IN
    /\ FaultHappens(graph, t, order, scan, fault)
    /\ ret.op # "handle_truck_failure_raised"
    /\ Bounded(r.graph)
    /\ graph' = r.graph
    /\ rerouting_history' = r.history
    /\ ret' = [op |-> "handle_truck_failure_raised", truck_id |-> t, fault |-> fault,
               result |-> r.state, pre |-> graph, pre_history |-> rerouting_history]
    /\ UNCHANGED <<simVars, calls>>

\* --------------------------------- Spec: the graph store, used by one caller
\* The store starts empty and one caller creates trucks and packages (again,
\* too: the ids are upserted), assigns and transfers.
StoreTrucks == {"T1", "T2"}
StorePackages == {"P1"}

Init ==
    /\ graph = EmptyGraph
    /\ events = <<>>
    /\ events_log = <<>>
    /\ active_events = <<>>
    /\ rerouting_history = <<>>
    /\ calls = <<>>
    /\ ret = [op |-> "init"]

Next ==
    \/ \E t \in StoreTrucks, c \in Capacities : CreateTruck(t, c, 0, 0, None)
    \/ \E p \in StorePackages, w \in Weights : CreatePackage(p, w)
    \/ \E t \in StoreTrucks, p \in StorePackages : AssignPackageToTruck(t, p)
    \/ \E p \in StorePackages, from \in StoreTrucks, to \in StoreTrucks :
            TransferPackage(p, from, to)

Spec == Init /\ [][Next]_vars

\* ------------------------------ SpecAgent: a loaded fleet, failures, recovery
\* The store as the data loader fills it: three active trucks of one capacity
\* along a line (T2 heading north, T3 south, T1 north or nowhere) and two
\* packages with a destination, no heavier than a truck, each put once on a
\* truck that has room for it; trucks fail and handle_truck_failure runs, for
\* any truck id.
UnknownTruck == "T9"

LoadedGraph(capacity, w1, w2, direction) ==
    LET g0 == [EmptyGraph EXCEPT !.customers = CustomerIds]
        g1 == create_truck(g0, "T1", capacity, 0, 0, "active", direction)
        g2 == create_truck(g1, "T2", capacity, 1, 0, "active", "north")
        g3 == create_truck(g2, "T3", capacity, 2, 0, "active", "south")
        g4 == create_package(g3, "P1", w1, "pending", "normal")
        g5 == create_package(g4, "P2", w2, "pending", "normal")
        g6 == assign_package_destination(g5, "P1", "C1").graph
    IN assign_package_destination(g6, "P2", "C1").graph

\* load_packages: a package goes on one of the active trucks whose
\* available_capacity holds its weight.
LoadPackage(t, p) ==
    /\ graph.packages[p].status = "pending"
    /\ graph.trucks[t].status = "active"
    /\ graph.trucks[t].available_capacity >= graph.packages[p].weight
    /\ AssignPackageToTruck(t, p)

ScanOrders == {<<"T1", "T2", "T3">>, <<"T3", "T2", "T1">>}

InitAgent ==
    /\ \E c \in Capacities, w1 \in Weights, w2 \in Weights, d \in {None, "north"} :
            /\ w1 <= c /\ w2 <= c
            /\ graph = LoadedGraph(c, w1, w2, d)
    /\ events = <<>>
    /\ events_log = <<>>
    /\ active_events = <<>>
    /\ rerouting_history = <<>>
    /\ calls = <<>>
    /\ ret = [op |-> "init"]

NextAgent ==
    \/ \E t \in TruckIds, p \in PackageIds : LoadPackage(t, p)
    \/ \E t \in TruckIds \cup {None}, pick \in TruckIds :
            InjectTruckFailure(t, pick, "Engine Failure", "high")
    \/ \E t \in TruckIds \cup {UnknownTruck}, order \in Orders(PackageIds),
           scan \in ScanOrders :
            HandleTruckFailure(t, order, scan)

SpecAgent == InitAgent /\ [][NextAgent]_vars

\* ---------------- SpecFleet: trucks of different capacities, failures, recovery
\* Three trucks along a line, each with its own capacity, and two packages
\* with a destination; packages are loaded, trucks are marked failed and
\* handle_truck_failure runs.
Fleet(c1, c2, c3, w1, w2) ==
    LET g0 == [EmptyGraph EXCEPT !.customers = CustomerIds]
        g1 == create_truck(g0, "T1", c1, 0, 0, "active", None)
        g2 == create_truck(g1, "T2", c2, 1, 0, "active", None)
        g3 == create_truck(g2, "T3", c3, 2, 0, "active", None)
        g4 == create_package(g3, "P1", w1, "pending", "normal")
        g5 == create_package(g4, "P2", w2, "pending", "normal")
        g6 == assign_package_destination(g5, "P1", "C1").graph
    IN assign_package_destination(g6, "P2", "C1").graph

InitFleet ==
    /\ \E c1 \in Capacities, c2 \in Capacities, c3 \in Capacities,
          w1 \in Weights, w2 \in Weights : graph = Fleet(c1, c2, c3, w1, w2)
    /\ events = <<>>
    /\ events_log = <<>>
    /\ active_events = <<>>
    /\ rerouting_history = <<>>
    /\ calls = <<>>
    /\ ret = [op |-> "init"]

NextFleet ==
    \/ \E t \in TruckIds, p \in PackageIds : LoadPackage(t, p)
    \/ \E t \in TruckIds : UpdateTruckStatus(t, "failed")
    \/ \E t \in TruckIds, order \in Orders(PackageIds), scan \in ScanOrders :
            HandleTruckFailure(t, order, scan)

SpecFleet == InitFleet /\ [][NextFleet]_vars

\* ------------------ SpecFault: the same fleet, recovery runs that hit a fault
\* Packages are loaded, trucks are marked failed, and handle_truck_failure
\* runs with one of its store calls raising.
NextFault ==
    \/ \E t \in TruckIds, p \in PackageIds : LoadPackage(t, p)
    \/ \E t \in TruckIds : UpdateTruckStatus(t, "failed")
    \/ \E t \in TruckIds, order \in Orders(PackageIds), scan \in ScanOrders,
           fault \in Faults :
            HandleTruckFailureRaising(t, order, scan, fault)

SpecFault == InitFleet /\ [][NextFault]_vars

\* ------------------------- SpecSim: one simulator, sequential calls
\* The loaded fleet and one DisruptionSimulator: failures and blockages are
\* injected, with an id or at random, and events are resolved, also twice.
RoutePoints == {"ROUTE-1", "ROUTE-2"}
Severities == {"medium", "high"}

NextSim ==
    \/ \E t \in TruckIds \cup {None}, pick \in TruckIds, sev \in Severities :
            InjectTruckFailure(t, pick, "Engine Failure", sev)
    \/ \E pt \in RoutePoints \cup {None}, pick \in RoutePoints, sev \in Severities :
            InjectRouteBlockage(pt, pick, "Road Flooded", sev)
    \/ \E roll \in BOOLEAN, ty \in {"truck_failure", "route_blocked"},
           pick_truck \in TruckIds, pick_point \in RoutePoints :
            InjectRandomChaos(roll, ty, pick_truck, pick_point,
                              IF ty = "truck_failure" THEN "Tire Blowout" ELSE "Bridge Closed",
                              "medium")
    \/ \E e \in 1..(MaxEvents + 1) : ResolveEvent(e)

SpecSim == InitAgent /\ [][NextSim]_vars

\* ------------------ SpecStats: the simulator of SpecSim, asked for statistics
GetEventStatistics ==
    /\ ret' = [op |-> "get_event_statistics",
               result |-> get_event_statistics(events, events_log, active_events)]
    /\ UNCHANGED <<graph, simVars, rerouting_history, calls>>

NextStats ==
    \/ NextSim
    \/ GetEventStatistics

SpecStats == InitAgent /\ [][NextStats]_vars

\* -------------------- SpecQuery: find_nearest_available_trucks on a fleet
\* The loaded fleet with P1 on T1 or on T2, T1 active or failed and T3 moved
\* along the line (onto T1's or T2's place, or left where it is); the query is
\* then made with any arguments.
QueryGraph(capacity, w1, w2, direction, carrier, status, lat3) ==
    LET g0 == LoadedGraph(capacity, w1, w2, direction)
        g1 == assign_package_to_truck(g0, carrier, "P1").graph
        g2 == update_truck_status(g1, "T1", status).graph
    IN update_truck_location(g2, "T3", lat3, 0).graph

InitQuery ==
    /\ \E c \in Capacities, w1 \in Weights, w2 \in Weights, d \in {None, "north"},
          carrier \in {"T1", "T2"}, status \in {"active", "failed"}, lat3 \in 0..2 :
            /\ w1 <= c /\ w2 <= c
            /\ graph = QueryGraph(c, w1, w2, d, carrier, status, lat3)
    /\ events = <<>>
    /\ events_log = <<>>
    /\ active_events = <<>>
    /\ rerouting_history = <<>>
    /\ calls = <<>>
    /\ ret = [op |-> "init"]

FindNearestAvailableTrucks(lat, lon, min_capacity, direction, limit, scan) ==
    /\ ret' = [op |-> "find_nearest_available_trucks", lat |-> lat, lon |-> lon,
               min_capacity |-> min_capacity, direction |-> direction, limit |-> limit,
               result |-> find_nearest_available_trucks(graph, lat, lon, min_capacity,
                                                        direction, limit, scan)]
    /\ UNCHANGED <<graph, simVars, rerouting_history, calls>>

Limits == {1, 2, CandidateLimit}

NextQuery ==
    \E lat \in 0..1, min_capacity \in 0..(MaxCapacity + 1),
       direction \in {None, "north", "south"}, limit \in Limits, scan \in ScanOrders :
        FindNearestAvailableTrucks(lat, 0, min_capacity, direction, limit, scan)

SpecQuery == InitQuery /\ [][NextQuery]_vars

\* ------------------- SpecConc: two callers run transfer_package concurrently
\* Each call is one auto-commit Cypher statement. The database runs it at
\* read-committed isolation: MATCH and WHERE read without locks, the write
\* clauses then lock the nodes and SET from the values current at that time.
\* Caller A moves P1 and caller B moves P2, between any two trucks.
Callers == {"A", "B"}
Moves == [c \in Callers |-> IF c = "A" THEN "P1" ELSE "P2"]

\* T1 carries P1 and T2 carries P2, T3 is empty; the packages fit.
ConcGraph(capacity, w1, w2) ==
    LET g0 == LoadedGraph(capacity, w1, w2, None)
        g1 == assign_package_to_truck(g0, "T1", "P1").graph
    IN assign_package_to_truck(g1, "T2", "P2").graph

InitConc ==
    /\ \E c \in Capacities, w1 \in Weights, w2 \in Weights :
            /\ w1 <= c /\ w2 <= c
            /\ graph = ConcGraph(c, w1, w2)
    /\ events = <<>>
    /\ events_log = <<>>
    /\ active_events = <<>>
    /\ rerouting_history = <<>>
    /\ calls = [c \in Callers |-> [pc |-> "idle"]]
    /\ ret = [op |-> "init"]

\* MATCH ... WHERE t2.available_capacity >= p.weight: the rows are fixed.
TransferMatch(c, from, to) ==
    /\ calls[c].pc = "idle"
    /\ calls' = [calls EXCEPT ![c] =
            [pc |-> "matched", package_id |-> Moves[c],
             from_truck_id |-> from, to_truck_id |-> to,
             rows |-> TransferRows(graph, Moves[c], from, to),
             seen |-> graph.trucks[to].available_capacity]]
    /\ UNCHANGED <<graph, simVars, rerouting_history, ret>>

\* DELETE, CREATE and SET for the rows matched, then `return result.single()
\* is not None`.
TransferWrite(c) ==
    LET call == calls[c] IN
    /\ call.pc = "matched"
    /\ graph' = IF call.rows = 0 THEN graph
                ELSE TransferWrites(graph, call.package_id, call.from_truck_id,
                                    call.to_truck_id, call.rows)
    /\ calls' = [calls EXCEPT ![c] = [call EXCEPT !.pc = "done"] @@ [ok |-> call.rows > 0]]
    /\ ret' = [op |-> "transfer_package", package_id |-> call.package_id,
               from_truck_id |-> call.from_truck_id, to_truck_id |-> call.to_truck_id,
               ok |-> call.rows > 0, pre |-> graph]
    /\ UNCHANGED <<simVars, rerouting_history>>

NextConc ==
    \/ \E c \in Callers, from \in TruckIds, to \in TruckIds : TransferMatch(c, from, to)
    \/ \E c \in Callers : TransferWrite(c)

SpecConc == InitConc /\ [][NextConc]_vars

\* ------------- SpecRecover: two handle_truck_failure runs, one store call a step
\* Two callers run handle_truck_failure for the failed truck T1 at the same
\* time, on one agent. Each run walks the workflow node by node; inside
\* execute_rerouting every transfer_package is a match step and a write step,
\* as in SpecConc. Nothing in the agent or the store serialises the two runs.

\* _build_workflow: the entry point and the edges.
EntryPoint == "detect_failure"

\* A workflow whose calculate_eta node leads back to execute_rerouting.
NextStage_repeat(stage) ==
    CASE stage = "detect_failure" -> "assess_impact"
      [] stage = "assess_impact" -> "find_alternatives"
      [] stage = "find_alternatives" -> "execute_rerouting"
      [] stage = "execute_rerouting" -> "calculate_eta"
      [] stage = "calculate_eta" -> "execute_rerouting"
      [] stage = "complete" -> "done"

NextStage(stage) ==
    CASE stage = "detect_failure" -> "assess_impact"
      [] stage = "assess_impact" -> "find_alternatives"
      [] stage = "find_alternatives" -> "execute_rerouting"
      [] stage = "execute_rerouting" -> "calculate_eta"
      [] stage = "calculate_eta" -> "complete"
      [] stage = "complete" -> "done"

\* T1 carries P1, and P2 as well when both fit, and has failed.
RecoverGraph(c1, c2, c3, w1, w2) ==
    LET g0 == Fleet(c1, c2, c3, w1, w2)
        g1 == assign_package_to_truck(g0, "T1", "P1").graph
        g2 == IF w1 + w2 <= c1 THEN assign_package_to_truck(g1, "T1", "P2").graph ELSE g1
    IN update_truck_status(g2, "T1", "failed").graph

InitRecover ==
    /\ \E c1 \in Capacities, c2 \in Capacities, c3 \in Capacities,
          w1 \in Weights, w2 \in Weights :
            /\ w1 <= c1
            /\ graph = RecoverGraph(c1, c2, c3, w1, w2)
    /\ events = <<>>
    /\ events_log = <<>>
    /\ active_events = <<>>
    /\ rerouting_history = <<>>
    /\ calls = [c \in Callers |-> [pc |-> "idle"]]
    /\ ret = [op |-> "init"]

\* A node has returned `st`: the run moves along the node's edge.
Enter(st, stage) ==
    [pc |-> NextStage(stage), state |-> st, phase |-> "enter",
     todo |-> <<>>, plan |-> <<>>, rows |-> 0]

StartRecovery(c, t) ==
    /\ calls[c].pc = "idle"
    /\ calls' = [calls EXCEPT ![c] =
                    [pc |-> EntryPoint, state |-> InitialState(t), phase |-> "enter",
                     todo |-> <<>>, plan |-> <<>>, rows |-> 0]]
    /\ UNCHANGED <<graph, simVars, rerouting_history, ret>>

RunDetectFailure(c) ==
    /\ calls[c].pc = "detect_failure"
    /\ calls' = [calls EXCEPT ![c] = Enter(_detect_failure(graph, @.state), "detect_failure")]
    /\ UNCHANGED <<graph, simVars, rerouting_history, ret>>

RunAssessImpact(c, order) ==
    /\ calls[c].pc = "assess_impact"
    /\ calls' = [calls EXCEPT ![c] =
                    Enter(_assess_impact(graph, @.state, order), "assess_impact")]
    /\ UNCHANGED <<graph, simVars, rerouting_history, ret>>

RunFindAlternatives(c, order, scan) ==
    /\ calls[c].pc = "find_alternatives"
    /\ calls' = [calls EXCEPT ![c] =
                    Enter(_find_alternatives(graph, @.state, order, scan), "find_alternatives")]
    /\ UNCHANGED <<graph, simVars, rerouting_history, ret>>

\* The entries _execute_rerouting still has to go through.
Todo(call) == IF call.phase = "enter" THEN call.state.available_trucks ELSE call.todo

\* The MATCH and WHERE of the transfer to candidates[0].
ExecMatch(c) ==
    LET call == calls[c]
        todo == Todo(call) IN
    /\ call.pc = "execute_rerouting" /\ call.phase \in {"enter", "match"}
    /\ todo # <<>>
    /\ calls' = [calls EXCEPT ![c] = [call EXCEPT
            !.todo = todo, !.phase = "write",
            !.rows = TransferRows(graph, Head(todo).package_id, call.state.failed_truck_id,
                                  Head(todo).candidates[1].truck.truck_id)]]
    /\ UNCHANGED <<graph, simVars, rerouting_history, ret>>

\* The write clauses when `n` rows were matched and the other run has deleted
\* some of the matched edges since: DELETE finds nothing for those.
ConcurrentWrites(g, package_id, from_truck_id, to_truck_id, n) ==
    LET live == g.carrying[<<from_truck_id, package_id>>]
        gone == IF live < n THEN n - live ELSE 0
    IN [TransferWrites(g, package_id, from_truck_id, to_truck_id, n) EXCEPT
           !.carrying[<<from_truck_id, package_id>>] = @ + gone]

\* The write clauses of that transfer and the `if success:` after it. When a
\* matched edge is gone the database either fails the statement
\* (transfer_package returns False) or ignores the DELETE: `outcome`.
ExecWrite(c, outcome) ==
    LET call == calls[c]
        e == Head(call.todo)
        from == call.state.failed_truck_id
        to == e.candidates[1].truck.truck_id
        lost == call.rows > 0 /\ graph.carrying[<<from, e.package_id>>] < call.rows
        success == call.rows > 0 /\ (lost => outcome = "ignored")
    IN
    /\ call.pc = "execute_rerouting" /\ call.phase = "write"
    /\ ~lost => outcome = "ignored"
    /\ graph' = IF success
                THEN ConcurrentWrites(graph, e.package_id, from, to, call.rows)
                ELSE graph
    /\ calls' = [calls EXCEPT ![c] = [call EXCEPT
            !.todo = Tail(call.todo), !.phase = "match", !.rows = 0,
            !.plan = IF success
                     THEN Append(@, [package_id |-> e.package_id, new_truck_id |-> to,
                                     distance |-> e.candidates[1].distance])
                     ELSE @]]
    /\ UNCHANGED <<simVars, rerouting_history, ret>>

\* The loop is over: _execute_rerouting stores the plan and returns.
ExecReturn(c) ==
    LET call == calls[c] IN
    /\ call.pc = "execute_rerouting" /\ call.phase \in {"enter", "match"}
    /\ Todo(call) = <<>>
    /\ calls' = [calls EXCEPT ![c] =
            Enter([Ran(call.state, "execute_rerouting") EXCEPT
                      !.rerouting_plan = call.plan,
                      !.status = "rerouting_executed",
                      !.message = "rerouted packages"], "execute_rerouting")]
    /\ UNCHANGED <<graph, simVars, rerouting_history, ret>>

RunCalculateEta(c) ==
    /\ calls[c].pc = "calculate_eta"
    /\ calls' = [calls EXCEPT ![c] = Enter(_calculate_eta(@.state), "calculate_eta")]
    /\ UNCHANGED <<graph, simVars, rerouting_history, ret>>

RunComplete(c) ==
    LET st == _complete(calls[c].state) IN
    /\ calls[c].pc = "complete"
    /\ calls' = [calls EXCEPT ![c] = Enter(st, "complete")]
    /\ rerouting_history' = Append(rerouting_history, HistoryRecord(st))
    /\ ret' = [op |-> "handle_truck_failure_returned", caller |-> c, state |-> st]
    /\ UNCHANGED <<graph, simVars>>

\* A store call of the node about to run raises: workflow.invoke propagates
\* it and handle_truck_failure returns the error result. transfer_package
\* catches what its statement raises, so inside execute_rerouting only the
\* opening of a session can raise.
RunRaise(c) ==
    LET call == calls[c] IN
    /\ CASE call.pc \in {"detect_failure", "assess_impact"} -> TRUE
         [] call.pc = "find_alternatives" -> call.state.affected_packages # <<>>
         [] call.pc = "execute_rerouting" ->
                call.phase \in {"enter", "match"} /\ Todo(call) # <<>>
         [] OTHER -> FALSE
    /\ calls' = [calls EXCEPT ![c] = [call EXCEPT !.pc = "failed"]]
    /\ ret' = [op |-> "handle_truck_failure_returned", caller |-> c, state |-> ErrorResult]
    /\ UNCHANGED <<graph, simVars, rerouting_history>>

RunStep(c, trucks) ==
    \/ \E t \in trucks : StartRecovery(c, t)
    \/ RunDetectFailure(c)
    \/ \E order \in Orders(PackageIds) : RunAssessImpact(c, order)
    \/ \E order \in Orders(PackageIds), scan \in ScanOrders : RunFindAlternatives(c, order, scan)
    \/ ExecMatch(c)
    \/ \E outcome \in {"error", "ignored"} : ExecWrite(c, outcome)
    \/ ExecReturn(c)
    \/ RunCalculateEta(c)
    \/ RunComplete(c)
    \/ RunRaise(c)

NextRecover == \E c \in Callers : RunStep(c, {"T1"})

SpecRecover == InitRecover /\ [][NextRecover]_vars

\* ------------------------- SpecRun: one handle_truck_failure run, node by node
\* One caller runs handle_truck_failure for any truck id, known or not. The
\* caller is a running thread: a run that can take a step takes it.
NextRun == RunStep("A", TruckIds \cup {UnknownTruck})

SpecRun == InitRecover /\ [][NextRun]_vars /\ WF_vars(NextRun)

\* ------------- SpecInterleave: a recovery run while the simulator fails trucks
\* One caller runs handle_truck_failure for the failed truck T1, one store
\* call a step, while the simulator injects truck failures: the agent and the
\* simulator share the store and nothing serialises them.
NextInterleave ==
    \/ RunStep("A", {"T1"})
    \/ \E t \in TruckIds \cup {None}, pick \in TruckIds :
            InjectTruckFailure(t, pick, "Engine Failure", "high")

SpecInterleave == InitRecover /\ [][NextInterleave]_vars

\* ------------------------ SpecEdges: the relationship calls of the data loader
\* Two trucks, a package, a customer and a route point exist; the caller
\* makes the three relationship calls in any order and any number of times,
\* with ids that exist and ids that do not, and asks for a truck's impact
\* analysis.
UnknownCustomer == "C9"
UnknownPoint == "R9"

EdgeStore(c1, c2, w) ==
    LET g0 == create_route_point(create_customer(EmptyGraph, "C1"), "R1")
        g1 == create_truck(g0, "T1", c1, 0, 0, "active", None)
        g2 == create_truck(g1, "T2", c2, 1, 0, "active", None)
    IN create_package(g2, "P1", w, "pending", "normal")

InitEdges ==
    /\ \E c1 \in Capacities, c2 \in Capacities, w \in Weights :
            graph = EdgeStore(c1, c2, w)
    /\ events = <<>>
    /\ events_log = <<>>
    /\ active_events = <<>>
    /\ rerouting_history = <<>>
    /\ calls = <<>>
    /\ ret = [op |-> "init"]

AssignPackageToTruckCall(t, p) ==
    LET r == assign_package_to_truck(graph, t, p) IN
    /\ Bounded(r.graph)
    /\ graph' = r.graph
    /\ ret' = [op |-> "assign_package_to_truck", truck_id |-> t, package_id |-> p,
               ok |-> r.ok, pre |-> graph]
    /\ UNCHANGED <<simVars, rerouting_history, calls>>

AssignPackageDestination(p, c) ==
    LET r == assign_package_destination(graph, p, c) IN
    /\ graph' = r.graph
    /\ ret' = [op |-> "assign_package_destination", package_id |-> p, customer_id |-> c,
               ok |-> r.ok, pre |-> graph]
    /\ UNCHANGED <<simVars, rerouting_history, calls>>

LocateTruckAtPoint(t, point) ==
    LET r == locate_truck_at_point(graph, t, point) IN
    /\ graph' = r.graph
    /\ ret' = [op |-> "locate_truck_at_point", truck_id |-> t, point_id |-> point,
               ok |-> r.ok, pre |-> graph]
    /\ UNCHANGED <<simVars, rerouting_history, calls>>

GetImpactAnalysis(t, order) ==
    /\ ret' = [op |-> "get_impact_analysis", truck_id |-> t,
               result |-> get_impact_analysis(graph, t, order)]
    /\ UNCHANGED <<graph, simVars, rerouting_history, calls>>

NextEdges ==
    \/ \E t \in StoreTrucks, p \in StorePackages : AssignPackageToTruckCall(t, p)
    \/ \E p \in StorePackages, c \in CustomerIds \cup {UnknownCustomer} :
            AssignPackageDestination(p, c)
    \/ \E t \in StoreTrucks, point \in PointIds \cup {UnknownPoint} :
            LocateTruckAtPoint(t, point)
    \/ \E t \in StoreTrucks, order \in Orders(StorePackages) : GetImpactAnalysis(t, order)

SpecEdges == InitEdges /\ [][NextEdges]_vars

\* ----------------- SpecCarry: a package's life: loaded, transferred, recovered
\* The loaded fleet of SpecAgent, T1 heading nowhere; packages are loaded,
\* transferred between trucks by a caller, trucks are marked failed and
\* handle_truck_failure runs.
InitCarry ==
    /\ \E c \in Capacities, w1 \in Weights, w2 \in Weights :
            /\ w1 <= c /\ w2 <= c
            /\ graph = LoadedGraph(c, w1, w2, None)
    /\ events = <<>>
    /\ events_log = <<>>
    /\ active_events = <<>>
    /\ rerouting_history = <<>>
    /\ calls = <<>>
    /\ ret = [op |-> "init"]

NextCarry ==
    \/ \E t \in TruckIds, p \in PackageIds : LoadPackage(t, p)
    \/ \E p \in PackageIds, from \in TruckIds, to \in TruckIds : TransferPackage(p, from, to)
    \/ \E t \in TruckIds : UpdateTruckStatus(t, "failed")
    \/ \E t \in TruckIds, order \in Orders(PackageIds), scan \in ScanOrders :
            HandleTruckFailure(t, order, scan)

SpecCarry == InitCarry /\ [][NextCarry]_vars

\* ------------- SpecHistory: recovery runs one after another, and statistics
\* The loaded fleet of SpecCarry; packages are loaded, trucks are marked
\* failed, handle_truck_failure runs up to MaxHistory + 1 times and
\* get_rerouting_statistics is read at any time.
RepeatHandleTruckFailure(t, order, scan) ==
    LET r == handle_truck_failure(graph, rerouting_history, t, order, scan) IN
    /\ Len(rerouting_history) < MaxHistory + 1
    /\ Bounded(r.graph)
    /\ graph' = r.graph
    /\ rerouting_history' = r.history
    /\ ret' = [op |-> "handle_truck_failure", truck_id |-> t, state |-> r.state,
               pre |-> graph, pre_history |-> rerouting_history]
    /\ UNCHANGED <<simVars, calls>>

GetReroutingStatistics ==
    /\ ret' = [op |-> "get_rerouting_statistics",
               result |-> get_rerouting_statistics(rerouting_history)]
    /\ UNCHANGED <<graph, simVars, rerouting_history, calls>>

NextHistory ==
    \/ \E t \in TruckIds, p \in PackageIds : LoadPackage(t, p)
    \/ \E t \in TruckIds : UpdateTruckStatus(t, "failed")
    \/ \E t \in TruckIds, order \in Orders(PackageIds), scan \in ScanOrders :
            RepeatHandleTruckFailure(t, order, scan)
    \/ GetReroutingStatistics

SpecHistory == InitCarry /\ [][NextHistory]_vars

\* ------------------ SpecLoop: start_continuous_simulation, statement by statement
\* One call of start_continuous_simulation on the loaded fleet. The clock
\* counts intervals since start_time: time.sleep(interval) advances it by one,
\* the other statements take no time. `calls` holds the call's position and
\* locals: pc, elapsed (time.time() - start_time, which stops counting at
\* MaxClock), duration (NoDuration for an endless run) and cancel_requested, a
\* request to stop made from outside the call, which is not Ctrl+C. The
\* iteration counter is only printed and is left out.
MaxDuration == 2
MaxClock == MaxDuration + 1
\* duration = None, the default
NoDuration == -1

\* `if duration and (time.time() - start_time) > duration`: None and 0 are
\* both false in Python.
DurationExceeded(duration, elapsed) ==
    /\ duration # NoDuration
    /\ duration # 0
    /\ elapsed > duration

InitLoop ==
    /\ graph = LoadedGraph(1, 1, 1, None)
    /\ events = <<>>
    /\ events_log = <<>>
    /\ active_events = <<>>
    /\ rerouting_history = <<>>
    /\ \E d \in {NoDuration} \cup 0..MaxDuration :
            calls = [pc |-> "check", elapsed |-> 0, duration |-> d,
                     cancel_requested |-> FALSE]
    /\ ret = [op |-> "init"]

\* The head of the loop: break when the duration is exceeded; after the loop
\* the statistics are printed and the call returns.
LoopCheck ==
    /\ calls.pc = "check"
    /\ IF DurationExceeded(calls.duration, calls.elapsed)
       THEN /\ calls' = [calls EXCEPT !.pc = "returned"]
            /\ ret' = [op |-> "start_continuous_simulation", interrupted |-> FALSE,
                       statistics |-> get_event_statistics(events, events_log, active_events)]
       ELSE /\ calls' = [calls EXCEPT !.pc = "inject"]
            /\ UNCHANGED ret
    /\ UNCHANGED <<graph, simVars, rerouting_history>>

LoopInject(roll, event_type, pick_truck, pick_point) ==
    LET r == inject_random_chaos(graph, events, events_log, active_events, roll, event_type,
                                 pick_truck, pick_point, "Overheating", "medium") IN
    /\ calls.pc = "inject"
    /\ roll => Len(events_log) < MaxEvents
    /\ graph' = r.graph
    /\ events' = r.events
    /\ events_log' = r.events_log
    /\ active_events' = r.active_events
    /\ calls' = [calls EXCEPT !.pc = "sleep"]
    /\ ret' = [op |-> "loop_inject", event |-> r.event, elapsed |-> calls.elapsed,
               cancel_requested |-> calls.cancel_requested]
    /\ UNCHANGED rerouting_history

LoopSleep ==
    /\ calls.pc = "sleep"
    /\ calls' = [calls EXCEPT !.pc = "check",
                              !.elapsed = IF @ < MaxClock THEN @ + 1 ELSE @]
    /\ UNCHANGED <<graph, simVars, rerouting_history, ret>>

\* Ctrl+C: KeyboardInterrupt is raised at whatever statement the loop is at and
\* caught outside the loop.
KeyboardInterrupt ==
    /\ calls.pc \in {"check", "inject", "sleep"}
    /\ calls' = [calls EXCEPT !.pc = "returned"]
    /\ ret' = [op |-> "start_continuous_simulation", interrupted |-> TRUE,
               statistics |-> get_event_statistics(events, events_log, active_events)]
    /\ UNCHANGED <<graph, simVars, rerouting_history>>

\* Somebody outside the call asks for the simulation to stop.
RequestCancel ==
    /\ calls.pc # "returned"
    /\ ~calls.cancel_requested
    /\ calls' = [calls EXCEPT !.cancel_requested = TRUE]
    /\ UNCHANGED <<graph, simVars, rerouting_history, ret>>

LoopStep ==
    \/ LoopCheck
    \/ \E roll \in BOOLEAN, ty \in {"truck_failure", "route_blocked"},
           pick_truck \in TruckIds, pick_point \in RoutePoints :
            LoopInject(roll, ty, pick_truck, pick_point)
    \/ LoopSleep

NextLoop ==
    \/ LoopStep
    \/ KeyboardInterrupt
    \/ RequestCancel

\* The loop is the running thread: it takes its next step. Nobody has to
\* press Ctrl+C or to ask for a stop.
SpecLoop == InitLoop /\ [][NextLoop]_vars /\ WF_vars(LoopStep)

\* -------- SpecAssign: packages assigned by a caller, failures, recovery
\* The loaded fleet with packages of weight 1; a caller assigns packages with
\* assign_package_to_truck to trucks that have room and do not carry them yet,
\* whatever the package's status and carrier, trucks are marked failed and
\* handle_truck_failure runs.
InitAssign ==
    /\ \E c \in Capacities : graph = LoadedGraph(c, 1, 1, None)
    /\ events = <<>>
    /\ events_log = <<>>
    /\ active_events = <<>>
    /\ rerouting_history = <<>>
    /\ calls = <<>>
    /\ ret = [op |-> "init"]

AssignToAnotherTruck(t, p) ==
    /\ graph.carrying[<<t, p>>] = 0
    /\ graph.trucks[t].available_capacity >= graph.packages[p].weight
    /\ AssignPackageToTruckCall(t, p)

NextAssign ==
    \/ \E t \in TruckIds, p \in PackageIds : AssignToAnotherTruck(t, p)
    \/ \E t \in TruckIds : UpdateTruckStatus(t, "failed")
    \/ \E t \in TruckIds, order \in Orders(PackageIds), scan \in ScanOrders :
            HandleTruckFailure(t, order, scan)

SpecAssign == InitAssign /\ [][NextAssign]_vars

\* ------ SpecProgress: packages with and without a destination, recovery
\* Three active trucks of one capacity and two packages of weight 1 that have
\* no destination yet; a caller gives packages a destination, packages are
\* loaded, trucks are marked failed and handle_truck_failure runs.
ProgressStore(capacity) ==
    LET g0 == [EmptyGraph EXCEPT !.customers = CustomerIds]
        g1 == create_truck(g0, "T1", capacity, 0, 0, "active", None)
        g2 == create_truck(g1, "T2", capacity, 1, 0, "active", "north")
        g3 == create_truck(g2, "T3", capacity, 2, 0, "active", "south")
        g4 == create_package(g3, "P1", 1, "pending", "normal")
    IN create_package(g4, "P2", 1, "pending", "normal")

InitProgress ==
    /\ \E c \in Capacities : graph = ProgressStore(c)
    /\ events = <<>>
    /\ events_log = <<>>
    /\ active_events = <<>>
    /\ rerouting_history = <<>>
    /\ calls = <<>>
    /\ ret = [op |-> "init"]

NextProgress ==
    \/ \E p \in PackageIds, c \in CustomerIds : AssignPackageDestination(p, c)
    \/ \E t \in TruckIds, p \in PackageIds : LoadPackage(t, p)
    \/ \E t \in TruckIds : UpdateTruckStatus(t, "failed")
    \/ \E t \in TruckIds, order \in Orders(PackageIds), scan \in ScanOrders :
            HandleTruckFailure(t, order, scan)

SpecProgress == InitProgress /\ [][NextProgress]_vars

\* ----------- SpecFrame: the simulator and the agent on one store, in turn
\* The fleet of SpecAssign; packages are loaded, the simulator injects
\* failures and blockages, with an id or at random, and resolves events, and
\* handle_truck_failure runs.
NextFrame ==
    \/ \E t \in TruckIds, p \in PackageIds : LoadPackage(t, p)
    \/ \E t \in {"T1", None}, pick \in {"T1", "T2"} :
            InjectTruckFailure(t, pick, "Engine Failure", "high")
    \/ InjectRouteBlockage("ROUTE-1", "ROUTE-1", "Road Flooded", "high")
    \/ \E roll \in BOOLEAN, ty \in {"truck_failure", "route_blocked"} :
            InjectRandomChaos(roll, ty, "T1", "ROUTE-1",
                              IF ty = "truck_failure" THEN "Tire Blowout" ELSE "Bridge Closed",
                              "medium")
    \/ \E e \in 1..MaxEvents : ResolveEvent(e)
    \/ \E t \in TruckIds, order \in Orders(PackageIds), scan \in ScanOrders :
            HandleTruckFailure(t, order, scan)

SpecFrame == InitAssign /\ [][NextFrame]_vars

\* --------------- SpecRace: two threads call one simulator at the same time
\* Each caller makes inject and resolve calls one after another; the two
\* callers interleave at the simulator's statements: it holds no lock, and a
\* thread can be switched out between any two of them. A resolver resolves an
\* event it read from events_log.
InitRace ==
    /\ \E c \in Capacities : graph = LoadedGraph(c, 1, 1, None)
    /\ events = <<>>
    /\ events_log = <<>>
    /\ active_events = <<>>
    /\ rerouting_history = <<>>
    /\ calls = [c \in Callers |-> [pc |-> "idle"]]
    /\ ret = [op |-> "init"]

\* inject_truck_failure(truck_id), inject_route_blockage(point_id) up to the
\* log append: the event object is built and, for a truck, the status updated.
InjectCreate(c, event_type, id, kind, severity) ==
    /\ calls[c].pc = "idle"
    /\ Len(events) < MaxEvents
    /\ events' = Append(events, NewEvent(event_type, id, severity, <<id, kind>>))
    /\ graph' = IF event_type = "truck_failure"
                THEN update_truck_status(graph, id, "failed").graph
                ELSE graph
    /\ calls' = [calls EXCEPT ![c] = [pc |-> "log_append", event |-> Len(events) + 1]]
    /\ UNCHANGED <<events_log, active_events, rerouting_history, ret>>

\* self.events_log.append(event)
InjectLogAppend(c) ==
    /\ calls[c].pc = "log_append"
    /\ events_log' = Append(events_log, calls[c].event)
    /\ calls' = [calls EXCEPT ![c].pc = "active_append"]
    /\ UNCHANGED <<graph, events, active_events, rerouting_history, ret>>

\* self.active_events.append(event); return event
InjectActiveAppend(c) ==
    /\ calls[c].pc = "active_append"
    /\ active_events' = Append(active_events, calls[c].event)
    /\ calls' = [calls EXCEPT ![c] = [pc |-> "idle"]]
    /\ ret' = [op |-> "inject", caller |-> c, event |-> calls[c].event]
    /\ UNCHANGED <<graph, events, events_log, rerouting_history>>

\* resolve_event(event): event.resolved = True
ResolveSet(c, e) ==
    /\ calls[c].pc = "idle"
    /\ e \in Range(events_log)
    /\ events' = [events EXCEPT ![e].resolved = TRUE]
    /\ calls' = [calls EXCEPT ![c] = [pc |-> "membership", event |-> e]]
    /\ UNCHANGED <<graph, events_log, active_events, rerouting_history, ret>>

\* if event in self.active_events:
ResolveMembership(c) ==
    /\ calls[c].pc = "membership"
    /\ calls' = [calls EXCEPT ![c] =
            IF calls[c].event \in Range(active_events)
            THEN [pc |-> "remove", event |-> calls[c].event]
            ELSE [pc |-> "idle"]]
    /\ ret' = IF calls[c].event \in Range(active_events) THEN ret
              ELSE [op |-> "resolve_event", caller |-> c, event |-> calls[c].event]
    /\ UNCHANGED <<graph, simVars, rerouting_history>>

\* self.active_events.remove(event): ValueError, and nothing removed, when the
\* other caller has removed the event since the membership test.
ResolveRemove(c) ==
    /\ calls[c].pc = "remove"
    /\ active_events' = IF calls[c].event \in Range(active_events)
                        THEN RemoveFirst(active_events, calls[c].event)
                        ELSE active_events
    /\ calls' = [calls EXCEPT ![c] = [pc |-> "idle"]]
    /\ ret' = [op |-> "resolve_event", caller |-> c, event |-> calls[c].event]
    /\ UNCHANGED <<graph, events, events_log, rerouting_history>>

NextRace ==
    \/ \E c \in Callers, t \in TruckIds, sev \in Severities :
            InjectCreate(c, "truck_failure", t, "Engine Failure", sev)
    \/ \E c \in Callers, pt \in RoutePoints, sev \in Severities :
            InjectCreate(c, "route_blocked", pt, "Road Flooded", sev)
    \/ \E c \in Callers : InjectLogAppend(c)
    \/ \E c \in Callers : InjectActiveAppend(c)
    \/ \E c \in Callers, e \in 1..MaxEvents : ResolveSet(c, e)
    \/ \E c \in Callers : ResolveMembership(c)
    \/ \E c \in Callers : ResolveRemove(c)

SpecRace == InitRace /\ [][NextRace]_vars

\* ----------------- SpecInject: failures injected until no truck is active
\* The loaded fleet and one simulator: trucks fail by themselves or through
\* inject_truck_failure, called with an id, without one, or from
\* inject_random_chaos.
NextInject ==
    \/ \E t \in TruckIds : UpdateTruckStatus(t, "failed")
    \/ \E t \in TruckIds \cup {None}, pick \in TruckIds :
            InjectTruckFailure(t, pick, "Engine Failure", "high")
    \/ \E roll \in BOOLEAN, ty \in {"truck_failure", "route_blocked"},
           pick_truck \in TruckIds :
            InjectRandomChaos(roll, ty, pick_truck, "ROUTE-1",
                              IF ty = "truck_failure" THEN "Tire Blowout" ELSE "Bridge Closed",
                              "medium")

SpecInject == InitAgent /\ [][NextInject]_vars

\* ------------------- SpecBlock: route blockages on a store with a route point
\* The loaded fleet with the route point R1; blockages are injected for R1,
\* for ids the store does not hold and without an id, and events are resolved.
InitBlock ==
    /\ \E c \in Capacities, w1 \in Weights, w2 \in Weights :
            /\ w1 <= c /\ w2 <= c
            /\ graph = create_route_point(LoadedGraph(c, w1, w2, None), "R1")
    /\ events = <<>>
    /\ events_log = <<>>
    /\ active_events = <<>>
    /\ rerouting_history = <<>>
    /\ calls = <<>>
    /\ ret = [op |-> "init"]

NextBlock ==
    \/ \E pt \in PointIds \cup RoutePoints \cup {None}, pick \in RoutePoints,
           sev \in Severities :
            InjectRouteBlockage(pt, pick, "Road Flooded", sev)
    \/ \E e \in 1..MaxEvents : ResolveEvent(e)

SpecBlock == InitBlock /\ [][NextBlock]_vars

\* ------------- SpecBlast: the blast radius of trucks that carry three packages
\* Two trucks, three packages of weight 1 and two customers; every package is
\* given destinations and loaded on a truck that has room, and the blast
\* radius of a truck is asked for at any time.
BlastTrucks == {"T1", "T2"}
BlastPackages == {"P1", "P2", "P3"}
BlastCustomers == {"C1", "C2"}

BlastStore(c1, c2) ==
    LET g0 == [EmptyGraph EXCEPT !.carrying = [e \in TruckIds \X BlastPackages |-> 0]]
        g1 == create_customer(create_customer(g0, "C1"), "C2")
        g2 == create_truck(g1, "T1", c1, 0, 0, "active", None)
        g3 == create_truck(g2, "T2", c2, 1, 0, "active", None)
        g4 == create_package(g3, "P1", 1, "pending", "normal")
        g5 == create_package(g4, "P2", 1, "pending", "normal")
    IN create_package(g5, "P3", 1, "pending", "normal")

InitBlast ==
    /\ \E c1 \in 1..(MaxCapacity + 1), c2 \in 1..(MaxCapacity + 1) :
            graph = BlastStore(c1, c2)
    /\ events = <<>>
    /\ events_log = <<>>
    /\ active_events = <<>>
    /\ rerouting_history = <<>>
    /\ calls = <<>>
    /\ ret = [op |-> "init"]

CalculateBlastRadius(t, order) ==
    /\ ret' = [op |-> "calculate_blast_radius", truck_id |-> t,
               result |-> calculate_blast_radius(graph, t, order), pre |-> graph]
    /\ UNCHANGED <<graph, simVars, rerouting_history, calls>>

NextBlast ==
    \/ \E t \in BlastTrucks, p \in BlastPackages : LoadPackage(t, p)
    \/ \E p \in BlastPackages, c \in BlastCustomers : AssignPackageDestination(p, c)
    \/ \E t \in BlastTrucks, order \in Orders(BlastPackages) : CalculateBlastRadius(t, order)

SpecBlast == InitBlast /\ [][NextBlast]_vars

\* ------------------------------------------------------------------- claims
Avail(g, t) == g.trucks[t].available_capacity

\* C1: after any sequence of store operations every truck has
\* 0 <= available_capacity <= capacity.
C1_CapacityInRange ==
    \A t \in DOMAIN graph.trucks :
        0 <= Avail(graph, t) /\ Avail(graph, t) <= graph.trucks[t].capacity

\* C2: after any sequence of store operations every truck's available_capacity
\* is its capacity minus the summed weight of the packages it carries.
C2_CapacityAccounting ==
    \A t \in DOMAIN graph.trucks :
        Avail(graph, t) = graph.trucks[t].capacity - CarriedWeight(graph, t)

\* C3: after any sequence of assignments and transfers no package is carried
\* by more than one truck, nor by more than one CARRYING edge.
C3_SingleCarrier ==
    \A p \in DOMAIN graph.packages :
        Cardinality(Carriers(graph, p)) <= 1 /\ InEdges(graph, p) <= 1

\* C4: a transfer_package call between two different trucks, made when the
\* edge from -> package exists and the destination has the capacity, succeeds,
\* moves the edge, credits the source by exactly the package's weight and
\* debits the destination by exactly that weight.
C4_TransferEffect ==
    (/\ ret.op = "transfer_package"
     /\ ret.from_truck_id # ret.to_truck_id
     /\ HasTruck(ret.pre, ret.from_truck_id) /\ HasTruck(ret.pre, ret.to_truck_id)
     /\ HasPackage(ret.pre, ret.package_id)
     /\ ret.pre.carrying[<<ret.from_truck_id, ret.package_id>>] > 0
     /\ Avail(ret.pre, ret.to_truck_id) >= ret.pre.packages[ret.package_id].weight)
    => (/\ ret.ok
        /\ graph.carrying[<<ret.from_truck_id, ret.package_id>>] = 0
        /\ graph.carrying[<<ret.to_truck_id, ret.package_id>>] > 0
        /\ Avail(graph, ret.from_truck_id)
              = Avail(ret.pre, ret.from_truck_id) + ret.pre.packages[ret.package_id].weight
        /\ Avail(graph, ret.to_truck_id)
              = Avail(ret.pre, ret.to_truck_id) - ret.pre.packages[ret.package_id].weight)

\* The two causes of a failed transfer.
NoSuchRelation(g, p, from) ==
    ~(HasTruck(g, from) /\ HasPackage(g, p) /\ g.carrying[<<from, p>>] > 0)
InsufficientCapacity(g, p, to) ==
    HasTruck(g, to) /\ HasPackage(g, p) /\ Avail(g, to) < g.packages[p].weight

\* C5: a transfer_package call made when the edge from -> package is absent or
\* the destination lacks the capacity fails, and a transfer_package call that
\* fails leaves the whole graph exactly as it was.
C5_FailedTransferChangesNothing ==
    ret.op = "transfer_package" =>
        /\ (NoSuchRelation(ret.pre, ret.package_id, ret.from_truck_id)
            \/ InsufficientCapacity(ret.pre, ret.package_id, ret.to_truck_id)) => ~ret.ok
        /\ ~ret.ok => graph = ret.pre

\* C5's case: a transfer has just failed for lack of capacity although the
\* edge from -> package exists.
C5_Witness ==
    /\ ret.op = "transfer_package" /\ ~ret.ok
    /\ ~NoSuchRelation(ret.pre, ret.package_id, ret.from_truck_id)
    /\ InsufficientCapacity(ret.pre, ret.package_id, ret.to_truck_id)
    /\ ret.from_truck_id # ret.to_truck_id

\* C6: for a package p on truck A and another truck B that has the capacity,
\* transfer_package(p, A, B) and then transfer_package(p, B, A) both succeed
\* and give back the available_capacity of A and of B and the CARRYING edges.
C6_RoundTrip ==
    \A p \in DOMAIN graph.packages : \A a \in DOMAIN graph.trucks, b \in DOMAIN graph.trucks :
        (a # b /\ graph.carrying[<<a, p>>] > 0 /\ Avail(graph, b) >= graph.packages[p].weight)
        => LET r1 == transfer_package(graph, p, a, b)
               r2 == transfer_package(r1.graph, p, b, a)
           IN /\ r1.ok /\ r2.ok
              /\ Avail(r2.graph, a) = Avail(graph, a)
              /\ Avail(r2.graph, b) = Avail(graph, b)
              /\ r2.graph.carrying = graph.carrying

\* C7: under any interleaving of two concurrent transfer_package calls no
\* available_capacity is ever outside [0, capacity], and two transfers into one
\* truck that had room for only one of the two packages do not both succeed.
C7_ConcurrentTransfersInRange ==
    /\ \A t \in DOMAIN graph.trucks :
          0 <= Avail(graph, t) /\ Avail(graph, t) <= graph.trucks[t].capacity
    /\ LET a == calls["A"]
           b == calls["B"]
       IN (/\ a.pc = "done" /\ b.pc = "done"
           /\ a.to_truck_id = b.to_truck_id
           /\ a.to_truck_id \notin {a.from_truck_id, b.from_truck_id}
           /\ (IF a.seen > b.seen THEN a.seen ELSE b.seen)
                  < graph.packages["P1"].weight + graph.packages["P2"].weight)
          => ~(a.ok /\ b.ok)

\* The precondition of _detect_failure fails: no such truck, or not failed.
NotFailed(g, t) == ~HasTruck(g, t) \/ g.trucks[t].status # "failed"

\* C8: handle_truck_failure for a truck that does not exist or is not failed
\* returns status error with a message, and no stage after detect_failure ran.
C8_ErrorStopsPipeline ==
    (ret.op = "handle_truck_failure" /\ NotFailed(ret.pre, ret.truck_id))
    => /\ ret.state.status = "error"
       /\ ret.state.message # ""
       /\ ret.state.stages = <<"detect_failure">>

\* C9: handle_truck_failure on a truck that is not failed changes no truck
\* capacity, no CARRYING edge and no package, and appends no history record.
C9_NotFailedChangesNothing ==
    (/\ ret.op = "handle_truck_failure"
     /\ HasTruck(ret.pre, ret.truck_id)
     /\ ret.pre.trucks[ret.truck_id].status # "failed")
    => /\ graph.trucks = ret.pre.trucks
       /\ graph.carrying = ret.pre.carrying
       /\ graph.packages = ret.pre.packages
       /\ rerouting_history = ret.pre_history

\* Scenario A on the graph a call was made on: the failed truck t1 carries the
\* one package p, by one edge, p has a destination, and t2 is the only truck
\* that find_nearest_available_trucks accepts for p.
ScenarioA(g, t1, p, t2) ==
    /\ HasTruck(g, t1) /\ g.trucks[t1].status = "failed"
    /\ Carried(g, t1) = {p} /\ g.carrying[<<t1, p>>] = 1
    /\ Destinations(g, p) # {}
    /\ {t \in DOMAIN g.trucks :
            Qualifies(g, t, g.packages[p].weight, g.trucks[t1].direction)} = {t2}

\* C10: in Scenario A handle_truck_failure(t1) returns a plan of length 1
\* naming t2; afterwards t2 carries p, t1 does not, t1's available_capacity is
\* its capacity and t2's is reduced by p's weight.
C10_ScenarioA ==
    \A t1 \in TruckIds, t2 \in TruckIds, p \in PackageIds :
        (/\ ret.op = "handle_truck_failure" /\ ret.truck_id = t1
         /\ ScenarioA(ret.pre, t1, p, t2))
        => /\ Len(ret.state.rerouting_plan) = 1
           /\ ret.state.rerouting_plan[1].package_id = p
           /\ ret.state.rerouting_plan[1].new_truck_id = t2
           /\ graph.carrying[<<t2, p>>] = 1
           /\ graph.carrying[<<t1, p>>] = 0
           /\ Avail(graph, t1) = graph.trucks[t1].capacity
           /\ Avail(graph, t2) = Avail(ret.pre, t2) - ret.pre.packages[p].weight

\* C10's case: handle_truck_failure has just run on failed T1 carrying only
\* P1, with T2 the one eligible truck although T3 is active too.
C10_Witness ==
    /\ ret.op = "handle_truck_failure" /\ ret.truck_id = "T1"
    /\ ScenarioA(ret.pre, "T1", "P1", "T2")
    /\ ret.pre.trucks["T3"].status = "active"
    /\ Len(ret.state.rerouting_plan) = 1

\* C11: every package that _execute_rerouting had candidates for is either in
\* the plan with the first candidate as its new truck, or absent from the plan
\* and still on the failed truck, on no other truck, whatever capacity the
\* later candidates have.
C11_SingleAttempt ==
    ret.op = "handle_truck_failure" =>
        LET st == ret.state
            plan == st.rerouting_plan
        IN \A i \in DOMAIN st.available_trucks :
              LET p == st.available_trucks[i].package_id
                  first == st.available_trucks[i].candidates[1].truck.truck_id
              IN \/ \E j \in DOMAIN plan :
                       plan[j].package_id = p /\ plan[j].new_truck_id = first
                 \/ /\ \A j \in DOMAIN plan : plan[j].package_id # p
                    /\ \A t \in TruckIds :
                          graph.carrying[<<t, p>>] = ret.pre.carrying[<<t, p>>]
                    /\ graph.carrying[<<ret.truck_id, p>>] > 0

\* C11's case: a package had two candidates, the transfer to the first failed
\* because an earlier transfer of the run filled it, and the second candidate
\* still has room for the package after the run.
C11_Witness ==
    /\ ret.op = "handle_truck_failure"
    /\ ret.pre.trucks[ret.truck_id].status = "failed"
    /\ \E i \in DOMAIN ret.state.available_trucks :
          LET e == ret.state.available_trucks[i] IN
          /\ \A j \in DOMAIN ret.state.rerouting_plan :
                ret.state.rerouting_plan[j].package_id # e.package_id
          /\ Len(e.candidates) > 1
          /\ Avail(graph, e.candidates[2].truck.truck_id)
                >= graph.packages[e.package_id].weight
          /\ graph.trucks[e.candidates[2].truck.truck_id].status = "active"
          /\ graph.carrying[<<ret.truck_id, e.package_id>>] > 0

\* C13: inject_truck_failure with the id of a truck that is not active returns
\* no event and leaves the events log, the active events and the event
\* statistics as they were.
C13_InjectOnInactiveRejected ==
    (/\ ret.op = "inject_truck_failure"
     /\ ret.truck_id # None
     /\ HasTruck(ret.pre, ret.truck_id)
     /\ ret.pre.trucks[ret.truck_id].status # "active")
    => /\ ret.event = 0
       /\ events_log = ret.pre_log
       /\ active_events = ret.pre_active
       /\ get_event_statistics(events, events_log, active_events)
            = get_event_statistics(ret.pre_events, ret.pre_log, ret.pre_active)

\* C17: an inject_truck_failure that hits an active truck sets its status to
\* failed and changes nothing else in the graph, creates one unresolved
\* truck_failure event for that truck, appends it to the events log and to
\* the active events, and returns it.
C17_InjectEffect ==
    (/\ ret.op = "inject_truck_failure"
     /\ ret.event # 0
     /\ HasTruck(ret.pre, events[ret.event].entity_id)
     /\ ret.pre.trucks[events[ret.event].entity_id].status = "active")
    => LET e == ret.event
           id == events[e].entity_id
       IN /\ ret.truck_id # None => id = ret.truck_id
          /\ graph = [ret.pre EXCEPT !.trucks[id].status = "failed"]
          /\ events = Append(ret.pre_events, events[e])
          /\ events[e].event_type = "truck_failure"
          /\ ~events[e].resolved
          /\ events_log = Append(ret.pre_log, e)
          /\ active_events = Append(ret.pre_active, e)
          /\ \A i \in DOMAIN ret.pre_log : ret.pre_log[i] # e

\* C17's case: a truck picked at random among the active ones has just
\* failed while another truck had failed before.
C17_Witness ==
    /\ ret.op = "inject_truck_failure"
    /\ ret.truck_id = None
    /\ ret.event # 0
    /\ ret.pre.trucks[events[ret.event].entity_id].status = "active"
    /\ ret.pre_log # <<>>
    /\ graph.trucks[events[ret.event].entity_id].status = "failed"

\* C19: when a failed truck has no affected package, handle_truck_failure goes
\* from assess_impact straight to complete: find_alternatives,
\* execute_rerouting and calculate_eta do not run, the plan is empty, and what
\* reaches complete is the no_packages outcome, not one written over it.
C19_NoPackagesShortCircuits ==
    (/\ ret.op = "handle_truck_failure"
     /\ ~NotFailed(ret.pre, ret.truck_id)
     /\ ret.state.affected_packages = <<>>)
    => /\ ret.state.stages = <<"detect_failure", "assess_impact", "complete">>
       /\ ret.state.rerouting_plan = <<>>
       /\ ret.state.message = "no packages to reroute"
       /\ graph = ret.pre

\* The invariants of the store: capacities in range, capacity accounting, one
\* carrier and one edge per package.
StoreInvariant(g) ==
    /\ \A t \in DOMAIN g.trucks :
          /\ 0 <= Avail(g, t) /\ Avail(g, t) <= g.trucks[t].capacity
          /\ Avail(g, t) = g.trucks[t].capacity - CarriedWeight(g, t)
    /\ \A p \in DOMAIN g.packages :
          Cardinality(Carriers(g, p)) <= 1 /\ InEdges(g, p) <= 1

\* C18: a handle_truck_failure run in which a store call raised returns status
\* error with a message, and the store it leaves satisfies the store
\* invariants.
C18_RaisedRunKeepsStore ==
    ret.op = "handle_truck_failure_raised" =>
        /\ ret.result.status = "error"
        /\ ret.result.message # ""
        /\ StoreInvariant(graph)
        /\ rerouting_history = ret.pre_history

\* C18's case: the second transfer_package call of a run on a failed truck
\* raised after the first one had moved its package.
C18_Witness ==
    /\ ret.op = "handle_truck_failure_raised"
    /\ ret.fault = [stage |-> "execute_rerouting", call |-> 2]
    /\ ret.pre.trucks[ret.truck_id].status = "failed"
    /\ graph # ret.pre
    /\ StoreInvariant(ret.pre)

\* C14: resolve_event on an event that is already resolved leaves the active
\* events, the events log and every event, its resolved flag included, as
\* they were.
C14_ResolveIdempotent ==
    (ret.op = "resolve_event" /\ ret.pre_events[ret.event].resolved)
    => /\ active_events = ret.pre_active
       /\ events_log = ret.pre_log
       /\ events = ret.pre_events
       /\ events[ret.event].resolved

\* C14's case: an event resolved before has been resolved again while another
\* event was active.
C14_Witness ==
    /\ ret.op = "resolve_event"
    /\ ret.pre_events[ret.event].resolved
    /\ ret.event \in Range(events_log)
    /\ ret.pre_active # <<>>

\* C15: after any sequence of simulator calls the active events are exactly the
\* events of the log that are not resolved, each of them once.
C15_ActiveIsUnresolvedLog ==
    /\ Range(active_events) = {e \in Range(events_log) : ~events[e].resolved}
    /\ Cardinality(Range(active_events)) = Len(active_events)

\* C15's case: of two logged events, one injected by inject_random_chaos, one
\* has been resolved and the other is still active.
C15_Witness ==
    /\ Len(events_log) = 2
    /\ Len(active_events) = 1
    /\ ret.op = "resolve_event"
    /\ \E e \in Range(events_log) : events[e].description[2] = "Bridge Closed"

\* C16: every truck find_nearest_available_trucks returns is active, has the
\* capacity asked for and, when a direction is given, that direction; the
\* result has at most `limit` entries, no truck twice, is in ascending
\* distance from the point, and a truck that passes the filters is left out
\* only when `limit` trucks no farther than it are returned.
C16_NearestTrucks ==
    ret.op = "find_nearest_available_trucks" =>
        LET res == ret.result
            Id(i) == res[i].truck.truck_id
            Dist(t) == (graph.trucks[t].current_lat - ret.lat) * (graph.trucks[t].current_lat - ret.lat)
                       + (graph.trucks[t].current_lon - ret.lon) * (graph.trucks[t].current_lon - ret.lon)
            Passes(t) == /\ graph.trucks[t].status = "active"
                         /\ graph.trucks[t].available_capacity >= ret.min_capacity
                         /\ (ret.direction # None => graph.trucks[t].direction = ret.direction)
        IN /\ Len(res) <= ret.limit
           /\ \A i \in DOMAIN res :
                 /\ Id(i) \in DOMAIN graph.trucks /\ Passes(Id(i))
                 /\ res[i].truck.status = "active"
                 /\ res[i].truck.available_capacity >= ret.min_capacity
                 /\ res[i].distance = Dist(Id(i))
           /\ \A i \in DOMAIN res, j \in DOMAIN res :
                 /\ i < j => res[i].distance <= res[j].distance
                 /\ i # j => Id(i) # Id(j)
           /\ \A t \in DOMAIN graph.trucks :
                 (Passes(t) /\ \A i \in DOMAIN res : Id(i) # t)
                 => /\ Len(res) = ret.limit
                    /\ \A i \in DOMAIN res : res[i].distance <= Dist(t)

\* C16's case: a query with limit 1 on a fleet where T1 is failed, nearest and
\* roomy enough, T2 and T3 pass the filters at the same distance, and one
\* truck is returned.
C16_Witness ==
    /\ ret.op = "find_nearest_available_trucks"
    /\ ret.limit = 1 /\ ret.min_capacity > 0 /\ ret.lat = 0
    /\ graph.trucks["T2"].current_lat = graph.trucks["T3"].current_lat
    /\ Len(ret.result) = 1
    /\ graph.trucks["T1"].status = "failed"
    /\ graph.trucks["T1"].available_capacity >= ret.min_capacity
    /\ Cardinality({t \in DOMAIN graph.trucks :
                      Qualifies(graph, t, ret.min_capacity, ret.direction)}) = 2

\* The packages a finished or running call has put in its plan.
Planned(call) ==
    IF call.pc = "idle" THEN {}
    ELSE {call.state.rerouting_plan[i].package_id : i \in DOMAIN call.state.rerouting_plan}
         \cup {call.plan[i].package_id : i \in DOMAIN call.plan}

\* C12: under any interleaving of two handle_truck_failure runs for the same
\* failed truck no package is in the plan of both, every package has at most
\* one carrier and one CARRYING edge, and the capacities stay in range and
\* equal to capacity minus carried weight.
C12_NoDoubleClaim ==
    /\ Planned(calls["A"]) \cap Planned(calls["B"]) = {}
    /\ StoreInvariant(graph)

StageOrder ==
    <<"detect_failure", "assess_impact", "find_alternatives",
      "execute_rerouting", "calculate_eta", "complete">>

\* The stages a run has executed are the first k of the six, the run is
\* about to execute stage k + 1, and it has returned its context only after
\* all six.
StagesInOrder(call) ==
    \/ call.pc = "idle"
    \/ \E k \in 0..Len(StageOrder) :
          /\ call.state.stages = SubSeq(StageOrder, 1, k)
          /\ k = 0 => call.state.status = "initialized"
          /\ call.pc = "done" => k = Len(StageOrder)
          /\ call.pc \notin {"done", "failed"} =>
                k < Len(StageOrder) /\ call.pc = StageOrder[k + 1]

\* C20: every handle_truck_failure run starts from a context with status
\* initialized, executes detect_failure, assess_impact, find_alternatives,
\* execute_rerouting, calculate_eta and complete in that order, each after
\* its predecessor has finished and none twice, and every started run
\* eventually returns.
C20_SequentialRun ==
    /\ [](\A c \in Callers : StagesInOrder(calls[c]))
    /\ \A c \in Callers :
          (calls[c].pc # "idle") ~> (calls[c].pc \in {"done", "failed"})

C20_Witness ==
    /\ calls["A"].pc = "done" /\ calls["A"].state.stages = StageOrder
    /\ Len(calls["A"].state.rerouting_plan) = 2
    /\ ret.op = "handle_truck_failure_returned" /\ ret.state.status = "completed"

\* C21: a transfer_package call that fails because the edge from -> package
\* is absent and one that fails because the destination lacks the capacity
\* return different values, so the caller can tell the two causes apart.
C21_DistinctFailureOutcomes ==
    \A p \in PackageIds, from1 \in TruckIds, to1 \in TruckIds,
       from2 \in TruckIds, to2 \in TruckIds :
        (/\ NoSuchRelation(graph, p, from1) /\ ~InsufficientCapacity(graph, p, to1)
         /\ HasTruck(graph, to1)
         /\ ~NoSuchRelation(graph, p, from2) /\ InsufficientCapacity(graph, p, to2))
        => transfer_package(graph, p, from1, to1) # transfer_package(graph, p, from2, to2)

\* C22: in every reachable state every package whose status is in_transit is
\* the target of exactly one CARRYING edge.
C22_InTransitHasOneCarrier ==
    \A p \in DOMAIN graph.packages :
        graph.packages[p].status = "in_transit" => InEdges(graph, p) = 1

\* The relationship a call is about exists in the store `g`.
EdgeExists(g, r) ==
    CASE r.op = "assign_package_to_truck" -> g.carrying[<<r.truck_id, r.package_id>>] > 0
      [] r.op = "assign_package_destination" -> <<r.package_id, r.customer_id>> \in g.destined
      [] r.op = "locate_truck_at_point" -> <<r.truck_id, r.point_id>> \in g.located
      [] OTHER -> FALSE

\* C23: an assign_package_to_truck, assign_package_destination or
\* locate_truck_at_point call for a relationship that already exists leaves
\* the whole store, the truck's available_capacity included, as it was.
C23_SecondCreateIsNoOp ==
    EdgeExists(ret.pre, ret) => graph = ret.pre

\* C24: a package is in_transit after its assignment to a truck, and a
\* transfer_package or handle_truck_failure call changes no package's status,
\* weight or priority and no package's destination: a package that was
\* in_transit before the call is in_transit after it.
C24_PackageUntouched ==
    /\ (ret.op = "assign_package_to_truck" /\ ret.ok)
          => graph.packages[ret.package_id].status = "in_transit"
    /\ ret.op \in {"transfer_package", "handle_truck_failure"}
          => /\ graph.packages = ret.pre.packages
             /\ graph.destined = ret.pre.destined
             /\ graph.customers = ret.pre.customers

\* C24's case: handle_truck_failure has just moved an in_transit package from
\* the failed truck to another one.
C24_Witness ==
    /\ ret.op = "handle_truck_failure"
    /\ ret.state.rerouting_plan # <<>>
    /\ LET e == ret.state.rerouting_plan[1] IN
          /\ ret.pre.packages[e.package_id].status = "in_transit"
          /\ ret.pre.carrying[<<ret.truck_id, e.package_id>>] > 0
          /\ graph.carrying[<<e.new_truck_id, e.package_id>>] > 0
          /\ graph.carrying[<<ret.truck_id, e.package_id>>] = 0

IsPrefix(s, t) == Len(s) <= Len(t) /\ SubSeq(t, 1, Len(s)) = s

\* C25: every step of the simulator leaves the previous events log a prefix
\* of the new one, and an event that is resolved stays resolved and is not in
\* active_events after the step.
C25_LogAppendOnly ==
    [][/\ IsPrefix(events_log, events_log')
       /\ \A e \in DOMAIN events :
            events[e].resolved =>
                events'[e].resolved /\ e \notin Range(active_events')]_vars

\* C25's case: the first event was resolved and a second one was injected
\* after that.
C25_Witness ==
    /\ Len(events_log) = 2
    /\ events[1].resolved /\ ~events[2].resolved
    /\ ret.op \in {"inject_truck_failure", "inject_route_blockage", "inject_random_chaos"}
    /\ ret.event = 2

\* C26: under any interleaving of concurrent inject_truck_failure,
\* inject_route_blockage and resolve_event calls, once every call has
\* returned the active events are exactly the unresolved events of the log,
\* each once: no resolved event is left active and no active event is missing
\* from the log.
C26_NoMembershipRace ==
    (\A c \in Callers : calls[c].pc = "idle")
    => /\ Range(active_events) = {e \in Range(events_log) : ~events[e].resolved}
       /\ Cardinality(Range(active_events)) = Len(active_events)

\* No truck of the store `g` has status active.
NoActiveTrucks(g) == \A t \in DOMAIN g.trucks : g.trucks[t].status # "active"

\* The last call was inject_truck_failure without a truck id, made directly
\* or by inject_random_chaos.
InjectedWithoutId ==
    \/ ret.op = "inject_truck_failure" /\ ret.truck_id = None
    \/ ret.op = "inject_random_chaos" /\ ret.roll /\ ret.event_type = "truck_failure"

\* C27: inject_truck_failure without a truck id, when no truck is active,
\* returns no event, changes no truck and appends nothing to the events log
\* or the active events; when some truck is active it fails a truck that was
\* active and no other.
C27_InjectWithoutId ==
    InjectedWithoutId =>
        IF NoActiveTrucks(ret.pre)
        THEN /\ ret.event = 0
             /\ graph = ret.pre
             /\ events = ret.pre_events
             /\ events_log = ret.pre_log
             /\ active_events = ret.pre_active
        ELSE /\ ret.event # 0
             /\ LET id == events[ret.event].entity_id IN
                   /\ ret.pre.trucks[id].status = "active"
                   /\ graph = [ret.pre EXCEPT !.trucks[id].status = "failed"]

\* C27's case: inject_truck_failure was called without an id when every
\* truck had failed, after an earlier injection had succeeded.
C27_Witness ==
    /\ ret.op = "inject_truck_failure" /\ ret.truck_id = None
    /\ NoActiveTrucks(ret.pre)
    /\ Len(events_log) = 1

\* C28: inject_route_blockage, for a point id the store holds, one it does
\* not hold or none, creates one unresolved route_blocked event (for the id
\* given, when one is given), appends it to the events log and to the active
\* events, returns it and leaves the graph as it was.
C28_BlockageEffect ==
    ret.op = "inject_route_blockage" =>
        LET e == ret.event IN
        /\ e = Len(ret.pre_events) + 1
        /\ events = Append(ret.pre_events, events[e])
        /\ events[e].event_type = "route_blocked"
        /\ ~events[e].resolved
        /\ ret.point_id # None => events[e].entity_id = ret.point_id
        /\ events_log = Append(ret.pre_log, e)
        /\ active_events = Append(ret.pre_active, e)
        /\ graph = ret.pre

\* C28's case: a blockage has just been injected for an id that is no route
\* point of the store, after an earlier event was resolved.
C28_Witness ==
    /\ ret.op = "inject_route_blockage"
    /\ ret.point_id # None /\ ret.point_id \notin graph.points
    /\ graph.points # {}
    /\ Len(events_log) = 2 /\ Len(active_events) = 1

\* The truck ids in ascending order.
TruckIdOrder == <<"T1", "T2", "T3">>

\* C29: find_nearest_available_trucks orders trucks at equal distance by
\* truck id, and a call with the same arguments on the same store returns the
\* same sequence whatever order the database scans the trucks in.
C29_TiesByTruckId ==
    ret.op = "find_nearest_available_trucks" =>
        /\ \A i \in DOMAIN ret.result, j \in DOMAIN ret.result :
              (i < j /\ ret.result[i].distance = ret.result[j].distance)
              => IndexOf(TruckIdOrder, ret.result[i].truck.truck_id)
                    < IndexOf(TruckIdOrder, ret.result[j].truck.truck_id)
        /\ \A scan \in ScanOrders :
              find_nearest_available_trucks(graph, ret.lat, ret.lon, ret.min_capacity,
                                            ret.direction, ret.limit, scan) = ret.result

\* C30: get_impact_analysis(truck) lists each package the truck carries once,
\* affected_packages is their number, total_weight the sum of their weights,
\* customer_ids the set of customers they are destined for and
\* affected_customers its size; for a truck that carries nothing the counts
\* are zero and the lists empty.
C30_ImpactIsCarried ==
    ret.op = "get_impact_analysis" =>
        LET carried == Carried(graph, ret.truck_id)
            customers == UNION {Destinations(graph, p) : p \in carried}
            r == ret.result
        IN /\ Range(r.package_ids) = carried
           /\ Len(r.package_ids) = Cardinality(carried)
           /\ r.affected_packages = Cardinality(carried)
           /\ r.total_weight = CarriedWeight(graph, ret.truck_id)
           /\ r.customer_ids = customers
           /\ r.affected_customers = Cardinality(customers)

\* The packages of the store that a truck carries, and the customers they are
\* destined for.
CarriedIn(g, t) == {p \in DOMAIN g.packages : g.carrying[<<t, p>>] > 0}
CustomersOf(g, t) == UNION {Destinations(g, p) : p \in CarriedIn(g, t)}

\* Scenario B: the truck carries three packages, each with one destination,
\* addressed to two customers.
ScenarioB(g, t) ==
    /\ Cardinality(CarriedIn(g, t)) = 3
    /\ \A p \in CarriedIn(g, t) : Cardinality(Destinations(g, p)) = 1
    /\ Cardinality(CustomersOf(g, t)) = 2

\* C31: calculate_blast_radius changes nothing in the store and returns
\* sla_penalty_per_package = 3 * SLA_PENALTY_PER_HOUR, total_sla_penalty =
\* affected_deliveries * sla_penalty_per_package and affected_customers = the
\* number of distinct customers of the truck's packages; for three packages to
\* two customers at 10 per hour these are 30, 90 and 2.
C31_BlastRadius ==
    ret.op = "calculate_blast_radius" =>
        LET r == ret.result IN
        /\ graph = ret.pre
        /\ r.sla_penalty_per_package = 3 * SLA_PENALTY_PER_HOUR
        /\ r.total_sla_penalty = r.affected_deliveries * r.sla_penalty_per_package
        /\ r.affected_customers = Cardinality(CustomersOf(graph, ret.truck_id))
        /\ ScenarioB(graph, ret.truck_id)
              => /\ r.sla_penalty_per_package = 30
                 /\ r.total_sla_penalty = 90
                 /\ r.affected_customers = 2

\* C31's case: Scenario B.
C31_Witness ==
    /\ ret.op = "calculate_blast_radius"
    /\ ScenarioB(graph, ret.truck_id)
    /\ ret.result.total_sla_penalty = 90

\* C32: get_event_statistics is computed over the full log: total_events is the
\* length of the log, active_events + resolved_events = total_events,
\* resolved_events is the number of logged events whose resolved flag is set,
\* and the counts by type and the counts by severity each sum to total_events.
C32_EventStatistics ==
    ret.op = "get_event_statistics" =>
        LET r == ret.result IN
        /\ r.total_events = Len(events_log)
        /\ r.active_events + r.resolved_events = r.total_events
        /\ r.resolved_events
             = Cardinality({i \in DOMAIN events_log : events[events_log[i]].resolved})
        /\ SumOver(r.by_type, DOMAIN r.by_type) = r.total_events
        /\ SumOver(r.by_severity, DOMAIN r.by_severity) = r.total_events

\* C32's case: statistics of a log that holds a resolved and an active event of
\* different types.
C32_Witness ==
    /\ ret.op = "get_event_statistics"
    /\ ret.result.resolved_events = 1
    /\ ret.result.active_events = 1
    /\ Cardinality(DOMAIN ret.result.by_type) = 2

\* C33: get_rerouting_statistics reports the history length as the number of
\* operations, the sum of packages_rerouted as the number of packages and
\* their quotient (0 on an empty history) as the average; a run that reaches
\* _complete appends exactly one record, whose packages_rerouted is the length
\* of the run's plan.
C33_ReroutingStatistics ==
    /\ ret.op = "get_rerouting_statistics" =>
          LET r == ret.result
              h == rerouting_history
              total == SumOver([i \in DOMAIN h |-> h[i].packages_rerouted], DOMAIN h)
          IN /\ r.total_rerouting_operations = Len(h)
             /\ r.total_packages_rerouted = total
             /\ r.average_packages_per_operation
                  = IF Len(h) = 0 THEN <<0, 1>> ELSE <<total, Len(h)>>
    /\ (ret.op = "handle_truck_failure" /\ "complete" \in Range(ret.state.stages)) =>
          /\ Len(rerouting_history) = Len(ret.pre_history) + 1
          /\ SubSeq(rerouting_history, 1, Len(ret.pre_history)) = ret.pre_history
          /\ rerouting_history[Len(rerouting_history)].packages_rerouted
               = Len(ret.state.rerouting_plan)

\* C33's case: statistics over two records, one of them with a rerouted
\* package and one without.
C33_Witness ==
    /\ ret.op = "get_rerouting_statistics"
    /\ ret.result.total_rerouting_operations = 2
    /\ ret.result.total_packages_rerouted = 1

\* C34: the continuous simulation can be stopped by a cancellation request
\* from outside that is not a process interrupt: once it is requested the
\* loop injects nothing more.
C34_CancelStopsInjection ==
    ret.op = "loop_inject" => ~ret.cancel_requested

\* C35: with a duration configured, 0 included, the loop stops on its own and
\* the call returns.
C35_DurationEndsLoop ==
    calls.duration # NoDuration => <>(calls.pc = "returned")

\* C36: handle_truck_failure never moves a package onto a truck whose status
\* is not active at the moment of the transfer, also when inject_truck_failure
\* fails the chosen candidate between find_alternatives and execute_rerouting:
\* every step that adds a CARRYING edge to a truck finds that truck active.
C36_TransferOntoActive ==
    [][\A t \in TruckIds, p \in PackageIds :
          graph'.carrying[<<t, p>>] > graph.carrying[<<t, p>>]
             => graph.trucks[t].status = "active"]_vars

\* The package ids of a rerouting plan.
PlanIds(plan) == {plan[i].package_id : i \in DOMAIN plan}

\* C37: after a handle_truck_failure run on a failed truck the plan matches
\* the store: no package id is twice in rerouting_plan; a package that was on
\* the failed truck is carried by another truck now exactly when the plan holds
\* it, and then by the entry's new_truck_id alone, which is not the failed
\* truck; an affected package that is not in the plan is still on the failed
\* truck.
C37_PlanMatchesStore ==
    (ret.op = "handle_truck_failure" /\ ret.pre.trucks[ret.truck_id].status = "failed") =>
        LET t == ret.truck_id
            plan == ret.state.rerouting_plan
        IN /\ \A i, j \in DOMAIN plan : plan[i].package_id = plan[j].package_id => i = j
           /\ \A p \in Carried(ret.pre, t) :
                 (Carriers(graph, p) \ {t} # {}) <=> p \in PlanIds(plan)
           /\ \A i \in DOMAIN plan :
                 /\ plan[i].new_truck_id # t
                 /\ Carriers(graph, plan[i].package_id) = {plan[i].new_truck_id}
           /\ \A p \in Range(ret.state.affected_packages) \ PlanIds(plan) :
                 graph.carrying[<<t, p>>] > 0

\* The packages a run has moved: those whose carriers after it are not the
\* carriers before it.
Moved(before, after) == {p \in PackageIds : Carriers(after, p) # Carriers(before, p)}

\* C38: after any handle_truck_failure invocations, those that end with a
\* caught exception after some transfers included, total_packages_rerouted of
\* get_rerouting_statistics is the number of packages moved: every invocation
\* adds to it the number of packages it moved.
C38_StatisticsCountMoves ==
    ret.op \in {"handle_truck_failure", "handle_truck_failure_raised"} =>
        get_rerouting_statistics(rerouting_history).total_packages_rerouted
          = get_rerouting_statistics(ret.pre_history).total_packages_rerouted
              + Cardinality(Moved(ret.pre, graph))

\* A truck that find_nearest_available_trucks would list for a package of the
\* failed truck.
Eligible(g, failed_truck_id, p) ==
    {t \in DOMAIN g.trucks :
        Qualifies(g, t, g.packages[p].weight, g.trucks[failed_truck_id].direction)}

\* Every package still on the failed truck has no eligible active truck.
Settled(g, failed_truck_id) ==
    \A p \in Carried(g, failed_truck_id) : Eligible(g, failed_truck_id, p) = {}

\* C39: recovery makes progress: a run on a failed truck whose
\* find_alternatives found a candidate for some package transfers at least one
\* package, and a run that transfers nothing leaves every package still on the
\* failed truck without an eligible active truck, so that repeating the run
\* ends in such a state.
C39_RecoveryProgress ==
    (ret.op = "handle_truck_failure" /\ ret.pre.trucks[ret.truck_id].status = "failed") =>
        /\ ret.state.available_trucks # <<>> => ret.state.rerouting_plan # <<>>
        /\ ret.state.rerouting_plan = <<>> => Settled(graph, ret.truck_id)

\* A truck's properties other than available_capacity.
Fixed(truck) == [truck EXCEPT !.available_capacity = 0]

SimulatorOps == {"inject_truck_failure", "inject_route_blockage", "inject_random_chaos",
                 "resolve_event"}

\* C40: handle_truck_failure changes only CARRYING edges and available
\* capacities: no truck's status, location, direction or capacity changes (the
\* failed truck stays failed), nothing else in the store does, and the
\* simulator's events, log and active list are untouched; no simulator
\* operation changes a capacity, an available capacity or a CARRYING edge.
C40_Frame ==
    [][/\ ret'.op = "handle_truck_failure" =>
            /\ DOMAIN graph'.trucks = DOMAIN graph.trucks
            /\ \A t \in DOMAIN graph.trucks : Fixed(graph'.trucks[t]) = Fixed(graph.trucks[t])
            /\ graph'.packages = graph.packages
            /\ graph'.customers = graph.customers /\ graph'.points = graph.points
            /\ graph'.destined = graph.destined /\ graph'.located = graph.located
            /\ events' = events /\ events_log' = events_log /\ active_events' = active_events
       /\ ret'.op \in SimulatorOps =>
            /\ graph'.carrying = graph.carrying
            /\ \A t \in DOMAIN graph.trucks :
                  /\ graph'.trucks[t].capacity = graph.trucks[t].capacity
                  /\ graph'.trucks[t].available_capacity = graph.trucks[t].available_capacity
      ]_vars

\* C40's case: a run that rerouted a package from a truck the simulator had
\* failed, with the event in the log.
C40_Witness ==
    /\ ret.op = "handle_truck_failure"
    /\ ret.state.rerouting_plan # <<>>
    /\ graph # ret.pre
    /\ graph.trucks[ret.truck_id].status = "failed"
    /\ events_log # <<>>

====
